---- MODULE Spec2Model ----
(***************************************************************************)
(* Control-volume balance-equation generator of idaes-pse: the 0-D and    *)
(* 1-D control volumes (idaes/core/control_volume0d.py, control_volume1d  *)
(* .py), their balance-adding methods and their initialize/release_state  *)
(* protocol.                                                               *)
(*                                                                         *)
(* A control volume is a Pyomo block.  Its components (Var, DerivativeVar, *)
(* Constraint, Expression, Param) are kept in `comps`, a function from the *)
(* attribute name to the component; a component carries its index set as a *)
(* set of tuples <<t, x, a, b>> (x = NoX when the component has no length  *)
(* index, a and b = "-" when it has fewer indices).                        *)
(***************************************************************************)
EXTENDS Integers, FiniteSets, Sequences, TLC

VARIABLES
    cfg,             \* configuration block and packages (fixed at construction)
    comps,           \* components attached to the control volume
    length_domain,   \* 1-D: points of the length domain ({} = not created)
    domain_info,     \* 1-D: [parent, scheme] of length_domain: the block that owns it
                     \* and the scheme it was discretized with ("none" = not yet)
    flow_direction,  \* 1-D: _flow_direction ("none" = not set)
    properties,      \* state blocks: key -> [defined_state, has_phase_equilibrium]
    reactions,       \* reaction blocks: key -> [has_equilibrium]
    call,            \* last public method called: [op, args, result]
    ncalls,          \* number of add_* calls made so far
    fixed,           \* fixed flag of every state variable of every state block
    value,           \* value of every state variable (None = no value)
    init             \* the running / last initialize call

vars == <<cfg, comps, length_domain, domain_info, flow_direction,
          properties, reactions,
          call, ncalls, fixed, value, init>>

buildVars == <<comps, length_domain, domain_info, flow_direction, properties,
               reactions>>

-----------------------------------------------------------------------------
(* Bounds of the model *)

NumTime == 2        \* time points 1..NumTime of flowsheet().config.time
MaxLen == 2         \* elements of the length domain add_geometry is given
MaxCalls == 3       \* method calls explored on one control volume

Time == 1..NumTime

\* length_domain_set: the points 0.0 .. 1.0 given to add_geometry, on a grid
\* of 4 steps per element so that the points a transformation adds between
\* them are integers too
LengthPoints == {4 * i : i \in 0..MaxLen}
NoX == 0 - 1   \* x index of a component that has no length index
None == "None"

-----------------------------------------------------------------------------
(* Property and reaction packages (the method contract the core consumes) *)

component_list == {"A", "B"}

phase_list(c) == IF c.nphases = 1 THEN {"Liq"} ELSE {"Liq", "Vap"}

\* get_phase_component_set(): component B is not present in the vapour phase
pc_set(c) == {pj \in phase_list(c) \X component_list : pj # <<"Vap", "B">>}

rate_reaction_idx == {"R1"}
equilibrium_reaction_idx == {"E1"}
\* a single-phase package declares no phase equilibria
phase_equilibrium_idx == IF cfg.nphases = 1 THEN {} ELSE {"PE1", "PE2"}

\* phase_equilibrium_list[r] = (component, (phase 1, phase 2))
phase_equilibrium_list ==
    [r \in phase_equilibrium_idx |->
        IF r = "PE1" THEN <<"A", <<"Vap", "Liq">>>>
        ELSE <<"A", <<"Liq", "Vap">>>>]
element_list == {"H", "C"}

\* the optional attributes a package may lack
Capabilities == {"rate_reaction_idx", "equilibrium_reaction_idx",
                 "phase_equilibrium_idx", "phase_equilibrium_list",
                 "element_list", "element_comp", "mw"}

MaterialFlowBasis == {"molar", "mass", "other"}

TransformationSchemes ==
    {"BACKWARD", "FORWARD", "LAGRANGE-LEGENDRE", "LAGRANGE-RADAU"}

-----------------------------------------------------------------------------
(* Components *)

Component(ctype, idx) == [ctype |-> ctype, idx |-> idx, active |-> TRUE]

hasattr(c, name) == name \in DOMAIN c

\* self.<name> = <component>: Pyomo replaces a component of the same name
SetAttr(c, name, comp) ==
    [n \in (DOMAIN c) \cup {name} |-> IF n = name THEN comp ELSE c[n]]

\* index sets
IdxT == {<<t, NoX, "-", "-">> : t \in Time}
IdxTA(A) == {<<t, NoX, a, "-">> : t \in Time, a \in A}
IdxTP(P) == {<<t, NoX, pj[1], pj[2]>> : t \in Time, pj \in P}
IdxTX(L) == {<<t, x, "-", "-">> : t \in Time, x \in L}
IdxTXA(L, A) == {<<t, x, a, "-">> : t \in Time, x \in L, a \in A}
IdxTXP(L, P) == {<<t, x, pj[1], pj[2]>> : t \in Time, x \in L, pj \in P}

Raise(c, e) == [comps |-> c, result |-> e]
Return(c) == [comps |-> c, result |-> "ok"]

-----------------------------------------------------------------------------
(* Configuration *)

dynamic == cfg.dynamic
has_holdup == cfg.has_holdup
transformation_scheme == cfg.transformation_scheme
caps == cfg.caps            \* optional attributes the packages provide
pcs == pc_set(cfg)
phases == phase_list(cfg)

Is0D == cfg.variant = "0D"
Is1D == cfg.variant = "1D"

first == CHOOSE x \in length_domain : \A y \in length_domain : x <= y
last == CHOOSE x \in length_domain : \A y \in length_domain : x >= y

has_length_domain == length_domain # {}

\* value of a configuration argument left at its default None
NotConfigured == 0

\* transformation_method: _validate_config_args lets a finite-difference method
\* pass with BACKWARD or FORWARD only, a collocation method with a LAGRANGE
\* scheme only
transformation_method ==
    IF transformation_scheme \in {"BACKWARD", "FORWARD"}
    THEN "dae.finite_difference"
    ELSE IF transformation_scheme \in {"LAGRANGE-LEGENDRE", "LAGRANGE-RADAU"}
    THEN "dae.collocation"
    ELSE "none"

NoDomain == [parent |-> "none", scheme |-> "none"]
LocalDomain == [parent |-> "self", scheme |-> "none"]
has_properties == DOMAIN properties # {}
has_reactions == DOMAIN reactions # {}

\* state variables of a state block (define_port_members): one scalar, one
\* member of an indexed variable
StateVars == {<<"flow_vol", "-">>, <<"conc_mol_comp", "A">>}

-----------------------------------------------------------------------------
(* _add_phase_fractions *)

\* Var(..., initialize=1/len(phase_list)): the initial value as <<1, n>>
phase_fraction_var(idx) ==
    [ctype |-> "Var", idx |-> idx, active |-> TRUE,
     initialize |-> <<1, Cardinality(phases)>>]

\* Expression whose rule returns 1
phase_fraction_expression(idx) ==
    [ctype |-> "Expression", idx |-> idx, active |-> TRUE, expr |-> 1]

\* a faulty variant: the variable and its constraint are created for a single
\* phase too (len(phase_list) >= 1)
add_phase_fractions_always_var_0D(c) ==
    SetAttr(SetAttr(c, "phase_fraction", phase_fraction_var(IdxTA(phases))),
            "sum_of_phase_fractions", Component("Constraint", IdxT))

add_phase_fractions_0D(c) ==
    IF Cardinality(phases) > 1
    THEN SetAttr(SetAttr(c, "phase_fraction", phase_fraction_var(IdxTA(phases))),
                 "sum_of_phase_fractions", Component("Constraint", IdxT))
    ELSE SetAttr(c, "phase_fraction", phase_fraction_expression(IdxTA(phases)))

add_phase_fractions_1D(c) ==
    IF Cardinality(phases) > 1
    THEN SetAttr(SetAttr(c, "phase_fraction",
                         phase_fraction_var(IdxTXA(length_domain, phases))),
                 "sum_of_phase_fractions",
                 Component("Constraint", IdxTX(length_domain)))
    ELSE SetAttr(c, "phase_fraction",
                 phase_fraction_expression(IdxTXA(length_domain, phases)))

\* if not hasattr(self, "phase_fraction"): self._add_phase_fractions()
ensure_phase_fractions_0D(c) ==
    IF hasattr(c, "phase_fraction") THEN c ELSE add_phase_fractions_0D(c)

ensure_phase_fractions_1D(c) ==
    IF hasattr(c, "phase_fraction") THEN c ELSE add_phase_fractions_1D(c)

-----------------------------------------------------------------------------
(* Custom terms of the material balances: the error user_term_mol or     *)
(* user_term_mass raises while the material_balances rule is evaluated    *)
(* ("" = none).                                                           *)

user_term_error(F) ==
    IF "custom_molar_term" \in F /\ cfg.flow_basis = "mass" /\ "mw" \notin caps
        THEN "PropertyNotSupportedError"
    ELSE IF "custom_molar_term" \in F /\ cfg.flow_basis = "other"
        THEN "ConfigurationError"
    ELSE IF "custom_mass_term" \in F /\ cfg.flow_basis = "molar" /\ "mw" \notin caps
        THEN "PropertyNotSupportedError"
    ELSE IF "custom_mass_term" \in F /\ cfg.flow_basis = "other"
        THEN "ConfigurationError"
    ELSE ""

-----------------------------------------------------------------------------
(* The rule of material_balances.  An equation is kept as the coefficient  *)
(* each term has in (right-hand side - left-hand side) at one domain point; *)
(* a term stands for the variable or expression of that name at (p, j),     *)
(* with the factors the code gives it in both balance types alike (length,  *)
(* _flow_direction_term, _rxn_rate_conv, the molecular weight of a custom   *)
(* term).                                                                   *)

MaterialTerms ==
    ({"material_accumulation", "flow_in", "flow_out", "material_flow_dx",
      "rate_reaction_generation", "equilibrium_reaction_generation",
      "mass_transfer_term", "custom_molar_term", "custom_mass_term"}
        \X (phases \cup {"-"}) \X component_list)
    \cup ({"phase_equilibrium_generation"} \X phase_equilibrium_idx \X {"-"})

Zero == [m \in MaterialTerms |-> 0]
Term(n, p, j) == [m \in MaterialTerms |-> IF m = <<n, p, j>> THEN 1 ELSE 0]
Plus(a, b) == [m \in MaterialTerms |-> a[m] + b[m]]
Minus(a, b) == [m \in MaterialTerms |-> a[m] - b[m]]
Scale(k, a) == [m \in MaterialTerms |-> k * a[m]]

RECURSIVE SumInt(_, _)
SumInt(D, g) ==
    IF D = {} THEN 0
    ELSE LET d == CHOOSE e \in D : TRUE IN g[d] + SumInt(D \ {d}, g)

\* sum(f[d] for d in D)
Sigma(D, f) == [m \in MaterialTerms |-> SumInt(D, [d \in D |-> f[d][m]])]

\* (first a faulty variant: the component of the index is not looked at)
phase_equilibrium_term_any_component(balance_type, F, p, j) ==
    IF "has_phase_equilibrium" \in F /\ balance_type = "componentPhase"
    THEN LET sd == [r \in phase_equilibrium_idx |->
                       IF phase_equilibrium_list[r][2][1] = p THEN 1
                       ELSE IF phase_equilibrium_list[r][2][2] = p THEN 0 - 1
                       ELSE 0]
         IN  Sigma(phase_equilibrium_idx,
                   [r \in phase_equilibrium_idx |->
                       Scale(sd[r], Term("phase_equilibrium_generation", r, "-"))])
    ELSE Zero

phase_equilibrium_term(balance_type, F, p, j) ==
    IF "has_phase_equilibrium" \in F /\ balance_type = "componentPhase"
    THEN LET sd == [r \in phase_equilibrium_idx |->
                       IF phase_equilibrium_list[r][1] = j
                       THEN IF phase_equilibrium_list[r][2][1] = p THEN 1
                            ELSE IF phase_equilibrium_list[r][2][2] = p THEN 0 - 1
                            ELSE 0
                       ELSE 0]
         IN  Sigma(phase_equilibrium_idx,
                   [r \in phase_equilibrium_idx |->
                       Scale(sd[r], Term("phase_equilibrium_generation", r, "-"))])
    ELSE Zero

\* the terms both balance types take per (p, j): accumulation_term, the flow
\* terms (0-D: properties_in - properties_out; 1-D: material_flow_dx),
\* kinetic_term, equilibrium_term and transfer_term
accumulation_term(p, j) ==
    IF dynamic THEN Term("material_accumulation", p, j) ELSE Zero

flow_terms(p, j) ==
    IF Is0D THEN Minus(Term("flow_in", p, j), Term("flow_out", p, j))
    ELSE Term("material_flow_dx", p, j)

generation_terms(F, p, j) ==
    Plus(Plus(IF "has_rate_reactions" \in F
              THEN Term("rate_reaction_generation", p, j) ELSE Zero,
              IF "has_equilibrium_reactions" \in F
              THEN Term("equilibrium_reaction_generation", p, j) ELSE Zero),
         IF "has_mass_transfer" \in F
         THEN Term("mass_transfer_term", p, j) ELSE Zero)

\* user_term_mol + user_term_mass; q is the phase, "-" in a component-total
\* balance, whose custom terms take (t, j)
user_terms(F, q, j) ==
    Plus(IF "custom_molar_term" \in F
         THEN Term("custom_molar_term", q, j) ELSE Zero,
         IF "custom_mass_term" \in F
         THEN Term("custom_mass_term", q, j) ELSE Zero)

\* material_balances(b, t, p, j) of the component-phase type
\* (first a faulty variant without the accumulation term)
material_balances_phase_steady(F, p, j) ==
    Plus(Plus(Plus(flow_terms(p, j), generation_terms(F, p, j)),
              phase_equilibrium_term("componentPhase", F, p, j)),
         user_terms(F, p, j))

material_balances_phase(F, p, j) ==
    Minus(Plus(Plus(Plus(flow_terms(p, j), generation_terms(F, p, j)),
                    phase_equilibrium_term("componentPhase", F, p, j)),
               user_terms(F, p, j)),
          accumulation_term(p, j))

\* cplist: the phases in which component j is present
\* (first a faulty variant: every phase of the package)
cplist_every_phase(j) == phases

cplist(j) == {p \in phases : <<p, j>> \in pcs}

\* material_balances(b, t, j) of the component-total type
\* (first a faulty variant that takes the flow terms of one phase only)
material_balances_total_one_phase(F, j) ==
    LET P == cplist(j)
        one == {CHOOSE p \in P : TRUE}
    IN  Minus(Plus(Plus(Sigma(one, [p \in one |-> flow_terms(p, j)]),
                        Sigma(P, [p \in P |-> generation_terms(F, p, j)])),
                   user_terms(F, "-", j)),
              Sigma(P, [p \in P |-> accumulation_term(p, j)]))

material_balances_total(F, j) ==
    LET P == cplist(j)
    IN  Minus(Plus(Plus(Sigma(P, [p \in P |-> flow_terms(p, j)]),
                        Sigma(P, [p \in P |-> generation_terms(F, p, j)])),
                   user_terms(F, "-", j)),
              Sigma(P, [p \in P |-> accumulation_term(p, j)]))

\* the constraint keeps its rule: the balance type and the arguments the rule
\* closes over
MaterialBalances(balance_type, F, idx) ==
    Component("Constraint", idx) @@ [rule |-> [balance_type |-> balance_type, F |-> F]]

\* the equation the rule returned for index i
material_balances_body(rule, i) ==
    IF rule.balance_type = "componentPhase"
    THEN material_balances_phase(rule.F, i[3], i[4])
    ELSE material_balances_total(rule.F, i[3])

-----------------------------------------------------------------------------
(* ControlVolume0DBlockData._add_material_balance_common                  *)
(* F is the set of arguments given as True / not None.                    *)

\* a constraint whose rule raised while it was being constructed stays
\* attached with the elements built so far
Failed(c, name) == SetAttr(c, name, Component("Constraint", {}))

\* phase_equilibrium_generation is created only for the component-phase type:
\*     if has_phase_equilibrium and balance_type == componentPhase
\* (first a faulty variant that creates it for either type)
creates_phase_equilibrium_generation_any_type(balance_type, pe) == pe

creates_phase_equilibrium_generation(balance_type, pe) ==
    pe /\ balance_type = "componentPhase"

\* a faulty variant: the has_equilibrium check of the reaction blocks is missing
reactions_equilibrium_unchecked == FALSE

reactions_lack_equilibrium == \E k \in DOMAIN reactions : ~reactions[k].has_equilibrium

properties_lack_phase_equilibrium ==
    \E k \in DOMAIN properties : ~properties[k].has_phase_equilibrium

add_material_balance_common_0D(balance_type, F) ==
    LET rate == "has_rate_reactions" \in F
        eq == "has_equilibrium_reactions" \in F
        pe == "has_phase_equilibrium" \in F
        mt == "has_mass_transfer" \in F
        midx == IF balance_type = "componentPhase"
                THEN IdxTP(pcs) ELSE IdxTA(component_list)
        c0 == comps
        c1 == IF has_holdup
              THEN SetAttr(c0, "material_holdup", Component("Var", IdxTP(pcs)))
              ELSE c0
        c2 == IF dynamic
              THEN SetAttr(c1, "material_accumulation",
                           Component("DerivativeVar", c1["material_holdup"].idx))
              ELSE c1
        c3 == IF rate
              THEN SetAttr(c2, "rate_reaction_generation",
                           Component("Var", IdxTP(pcs)))
              ELSE c2
        c4 == IF eq
              THEN SetAttr(c3, "equilibrium_reaction_generation",
                           Component("Var", IdxTP(pcs)))
              ELSE c3
        c5 == IF creates_phase_equilibrium_generation(balance_type, pe)
              THEN SetAttr(c4, "phase_equilibrium_generation",
                           Component("Var", IdxTA(phase_equilibrium_idx)))
              ELSE c4
        c6 == IF mt
              THEN SetAttr(c5, "mass_transfer_term", Component("Var", IdxTP(pcs)))
              ELSE c5
        c7 == IF has_holdup THEN ensure_phase_fractions_0D(c6) ELSE c6
        c8 == IF has_holdup
              THEN SetAttr(c7, "material_holdup_calculation",
                           Component("Constraint", IdxTP(pcs)))
              ELSE c7
        c9 == IF rate
              THEN SetAttr(SetAttr(c8, "rate_reaction_extent",
                                   Component("Var", IdxTA(rate_reaction_idx))),
                           "rate_reaction_stoichiometry_constraint",
                           Component("Constraint", IdxTP(pcs)))
              ELSE c8
        c10 == IF eq
               THEN SetAttr(SetAttr(c9, "equilibrium_reaction_extent",
                                    Component("Var",
                                              IdxTA(equilibrium_reaction_idx))),
                            "equilibrium_reaction_stoichiometry_constraint",
                            Component("Constraint", IdxTP(pcs)))
               ELSE c9
        c11 == SetAttr(c10, "material_balances",
                       MaterialBalances(balance_type, F, midx))
    IN  IF (rate \/ eq) /\ ~has_reactions
            THEN Raise(c0, "ConfigurationError")
        ELSE IF eq /\ reactions_lack_equilibrium
            THEN Raise(c0, "ConfigurationError")
        ELSE IF pe /\ ~has_properties
            THEN Raise(c0, "AttributeError")
        ELSE IF pe /\ properties_lack_phase_equilibrium
            THEN Raise(c0, "ConfigurationError")
        ELSE IF has_holdup /\ ~hasattr(c0, "volume")
            THEN Raise(c0, "ConfigurationError")
        ELSE IF dynamic /\ ~hasattr(c1, "material_holdup")
            THEN Raise(c1, "AttributeError")
        ELSE IF rate /\ "rate_reaction_idx" \notin caps
            THEN Raise(c2, "PropertyNotSupportedError")
        ELSE IF eq /\ "equilibrium_reaction_idx" \notin caps
            THEN Raise(c3, "PropertyNotSupportedError")
        ELSE IF creates_phase_equilibrium_generation(balance_type, pe)
                /\ "phase_equilibrium_idx" \notin caps
            THEN Raise(c4, "PropertyNotSupportedError")
        ELSE IF has_holdup /\ ~has_properties
            THEN Raise(Failed(c7, "material_holdup_calculation"), "AttributeError")
        ELSE IF ~has_properties
            THEN Raise(Failed(c10, "material_balances"), "AttributeError")
        ELSE IF creates_phase_equilibrium_generation(balance_type, pe)
                /\ "phase_equilibrium_list" \notin caps
            THEN Raise(Failed(c10, "material_balances"), "AttributeError")
        ELSE IF user_term_error(F) # ""
            THEN Raise(Failed(c10, "material_balances"), user_term_error(F))
        ELSE Return(c11)

-----------------------------------------------------------------------------
(* ControlVolume1DBlockData: the rule of every balance constraint returns *)
(* Constraint.Skip at one end of the length domain.                       *)

material_balances_skip(x) ==
    \/ (transformation_scheme # "FORWARD" /\ x = first)
    \/ (transformation_scheme = "FORWARD" /\ x = last)

material_balances_total_skip(x) ==
    \/ (transformation_scheme # "FORWARD" /\ x = first)
    \/ (transformation_scheme = "FORWARD" /\ x = last)

element_balances_skip(x) ==
    \/ (transformation_scheme # "FORWARD" /\ x = first)
    \/ (transformation_scheme = "FORWARD" /\ x = last)

enthalpy_balances_skip(x) ==
    \/ (transformation_scheme # "FORWARD" /\ x = first)
    \/ (transformation_scheme = "FORWARD" /\ x = last)

\* a faulty variant: the first point is skipped whatever the scheme
pressure_balance_skip_first(x) == x = first

pressure_balance_skip(x) ==
    \/ (transformation_scheme # "FORWARD" /\ x = first)
    \/ (transformation_scheme = "FORWARD" /\ x = last)

\* area, length and _flow_direction_term exist once add_geometry has returned
has_geometry_1D(c) == hasattr(c, "area") /\ hasattr(c, "length")

-----------------------------------------------------------------------------
(* ControlVolume1DBlockData._add_material_balance_common                  *)

add_material_balance_common_1D(balance_type, F) ==
    LET rate == "has_rate_reactions" \in F
        eq == "has_equilibrium_reactions" \in F
        pe == "has_phase_equilibrium" \in F
        mt == "has_mass_transfer" \in F
        L == length_domain
        midx == IF balance_type = "componentPhase"
                THEN IdxTXP({x \in L : ~material_balances_skip(x)}, pcs)
                ELSE IdxTXA({x \in L : ~material_balances_total_skip(x)},
                            component_list)
        c0 == comps
        c1 == IF has_holdup
              THEN SetAttr(c0, "material_holdup", Component("Var", IdxTXP(L, pcs)))
              ELSE c0
        c2 == IF dynamic
              THEN SetAttr(c1, "material_accumulation",
                           Component("DerivativeVar", c1["material_holdup"].idx))
              ELSE c1
        c2a == SetAttr(c2, "_flow_terms", Component("Var", IdxTXP(L, pcs)))
        c2b == SetAttr(c2a, "material_flow_linking_constraints",
                       Component("Constraint", IdxTXP(L, pcs)))
        c2c == SetAttr(c2b, "material_flow_dx",
                       Component("DerivativeVar", IdxTXP(L, pcs)))
        c3 == IF rate
              THEN SetAttr(c2c, "rate_reaction_generation",
                           Component("Var", IdxTXP(L, pcs)))
              ELSE c2c
        c4 == IF eq
              THEN SetAttr(c3, "equilibrium_reaction_generation",
                           Component("Var", IdxTXP(L, pcs)))
              ELSE c3
        c5 == IF creates_phase_equilibrium_generation(balance_type, pe)
              THEN SetAttr(c4, "phase_equilibrium_generation",
                           Component("Var", IdxTXA(L, phase_equilibrium_idx)))
              ELSE c4
        c6 == IF mt
              THEN SetAttr(c5, "mass_transfer_term",
                           Component("Var", IdxTXP(L, pcs)))
              ELSE c5
        c7 == IF has_holdup THEN ensure_phase_fractions_1D(c6) ELSE c6
        c8 == IF has_holdup
              THEN SetAttr(c7, "material_holdup_calculation",
                           Component("Constraint", IdxTXP(L, pcs)))
              ELSE c7
        c9 == IF rate
              THEN SetAttr(SetAttr(c8, "rate_reaction_extent",
                                   Component("Var", IdxTXA(L, rate_reaction_idx))),
                           "rate_reaction_stoichiometry_constraint",
                           Component("Constraint", IdxTXP(L, pcs)))
              ELSE c8
        c10 == IF eq
               THEN SetAttr(SetAttr(c9, "equilibrium_reaction_extent",
                                    Component("Var",
                                              IdxTXA(L, equilibrium_reaction_idx))),
                            "equilibrium_reaction_stoichiometry_constraint",
                            Component("Constraint", IdxTXP(L, pcs)))
               ELSE c9
        c11 == SetAttr(c10, "material_balances",
                       MaterialBalances(balance_type, F, midx))
    IN  IF (rate \/ eq) /\ ~has_reactions
            THEN Raise(c0, "ConfigurationError")
        ELSE IF eq /\ ~has_length_domain
            THEN Raise(c0, "AttributeError")
        ELSE IF eq /\ reactions_lack_equilibrium
            THEN Raise(c0, "ConfigurationError")
        ELSE IF pe /\ (~has_length_domain \/ ~has_properties)
            THEN Raise(c0, "AttributeError")
        ELSE IF pe /\ properties_lack_phase_equilibrium
            THEN Raise(c0, "ConfigurationError")
        ELSE IF ~has_length_domain
            THEN Raise(c0, "AttributeError")
        ELSE IF dynamic /\ ~hasattr(c1, "material_holdup")
            THEN Raise(c1, "AttributeError")
        ELSE IF ~has_properties
            THEN Raise(Failed(c2a, "material_flow_linking_constraints"),
                       "AttributeError")
        ELSE IF rate /\ "rate_reaction_idx" \notin caps
            THEN Raise(c2c, "PropertyNotSupportedError")
        ELSE IF eq /\ "equilibrium_reaction_idx" \notin caps
            THEN Raise(c3, "PropertyNotSupportedError")
        ELSE IF creates_phase_equilibrium_generation(balance_type, pe)
                /\ "phase_equilibrium_idx" \notin caps
            THEN Raise(c4, "PropertyNotSupportedError")
        ELSE IF has_holdup /\ ~has_geometry_1D(c7)
            THEN Raise(Failed(c7, "material_holdup_calculation"), "AttributeError")
        ELSE IF ~has_geometry_1D(c10)
            THEN Raise(Failed(c10, "material_balances"), "AttributeError")
        ELSE IF creates_phase_equilibrium_generation(balance_type, pe)
                /\ "phase_equilibrium_list" \notin caps
            THEN Raise(Failed(c10, "material_balances"), "AttributeError")
        ELSE IF user_term_error(F) # ""
            THEN Raise(Failed(c10, "material_balances"), user_term_error(F))
        ELSE Return(c11)

-----------------------------------------------------------------------------
(* add_total_element_balances *)

FailedExpression(c, name) == SetAttr(c, name, Component("Expression", {}))

\* a faulty variant: has_phase_equilibrium is not rejected
add_total_element_balances_accepts_pe(F) ==
    IF "element_list" \notin caps
        THEN Raise(comps, "PropertyNotSupportedError")
    ELSE IF "has_rate_reactions" \in F \/ "has_equilibrium_reactions" \in F
        THEN Raise(comps, "ConfigurationError")
    ELSE IF ~has_properties
        THEN Raise(FailedExpression(comps, "elemental_flow_in"), "AttributeError")
    ELSE IF "element_comp" \notin caps
        THEN Raise(FailedExpression(comps, "elemental_flow_in"), "AttributeError")
    ELSE Return(SetAttr(comps, "element_balances",
                        Component("Constraint", IdxTA(element_list))))

add_total_element_balances_0D(F) ==
    LET mt == "has_mass_transfer" \in F
        PE == phases \X element_list
        c0 == comps
        c1 == IF has_holdup
              THEN SetAttr(c0, "element_holdup",
                           Component("Var", IdxTA(element_list)))
              ELSE c0
        c2 == IF dynamic
              THEN SetAttr(c1, "element_accumulation",
                           Component("DerivativeVar", c1["element_holdup"].idx))
              ELSE c1
        c3 == SetAttr(c2, "elemental_flow_in", Component("Expression", IdxTP(PE)))
        c4 == SetAttr(c3, "elemental_flow_out", Component("Expression", IdxTP(PE)))
        c5 == IF mt
              THEN SetAttr(c4, "elemental_mass_transfer_term",
                           Component("Var", IdxTA(element_list)))
              ELSE c4
        c6 == SetAttr(c5, "element_balances",
                      Component("Constraint", IdxTA(element_list)))
        c7 == IF has_holdup THEN ensure_phase_fractions_0D(c6) ELSE c6
        c8 == IF has_holdup
              THEN SetAttr(c7, "elemental_holdup_calculation",
                           Component("Constraint", IdxTA(element_list)))
              ELSE c7
    IN  IF "element_list" \notin caps
            THEN Raise(c0, "PropertyNotSupportedError")
        ELSE IF "has_rate_reactions" \in F
            THEN Raise(c0, "ConfigurationError")
        ELSE IF "has_equilibrium_reactions" \in F
            THEN Raise(c0, "ConfigurationError")
        ELSE IF "has_phase_equilibrium" \in F
            THEN Raise(c0, "ConfigurationError")
        ELSE IF has_holdup /\ ~hasattr(c0, "volume")
            THEN Raise(c0, "ConfigurationError")
        ELSE IF dynamic /\ ~hasattr(c1, "element_holdup")
            THEN Raise(c1, "AttributeError")
        ELSE IF ~has_properties
            THEN Raise(FailedExpression(c2, "elemental_flow_in"), "AttributeError")
        ELSE IF "element_comp" \notin caps
            THEN Raise(FailedExpression(c2, "elemental_flow_in"), "AttributeError")
        ELSE Return(c8)

add_total_element_balances_1D(F) ==
    LET mt == "has_mass_transfer" \in F
        L == length_domain
        c0 == comps
        c1 == IF has_holdup
              THEN SetAttr(c0, "element_holdup",
                           Component("Var", IdxTXA(L, element_list)))
              ELSE c0
        c2 == IF dynamic
              THEN SetAttr(c1, "element_accumulation",
                           Component("DerivativeVar", c1["element_holdup"].idx))
              ELSE c1
        c3 == SetAttr(c2, "elemental_flow_term",
                      Component("Var", IdxTXA(L, element_list)))
        c4 == SetAttr(c3, "elemental_flow_constraint",
                      Component("Constraint", IdxTXA(L, element_list)))
        c5 == SetAttr(c4, "elemental_flow_dx",
                      Component("DerivativeVar", IdxTXA(L, element_list)))
        c6 == IF mt
              THEN SetAttr(c5, "elemental_mass_transfer_term",
                           Component("Var", IdxTXA(L, element_list)))
              ELSE c5
        c7 == SetAttr(c6, "element_balances",
                      Component("Constraint",
                                IdxTXA({x \in L : ~element_balances_skip(x)},
                                       element_list)))
        c8 == IF has_holdup THEN ensure_phase_fractions_1D(c7) ELSE c7
        c9 == IF has_holdup
              THEN SetAttr(c8, "elemental_holdup_calculation",
                           Component("Constraint", IdxTXA(L, element_list)))
              ELSE c8
    IN  IF "element_list" \notin caps
            THEN Raise(c0, "PropertyNotSupportedError")
        ELSE IF "has_rate_reactions" \in F
            THEN Raise(c0, "ConfigurationError")
        ELSE IF "has_equilibrium_reactions" \in F
            THEN Raise(c0, "ConfigurationError")
        ELSE IF "has_phase_equilibrium" \in F
            THEN Raise(c0, "ConfigurationError")
        ELSE IF ~has_length_domain
            THEN Raise(c0, "AttributeError")
        ELSE IF dynamic /\ ~hasattr(c1, "element_holdup")
            THEN Raise(c1, "AttributeError")
        ELSE IF ~has_properties
            THEN Raise(Failed(c3, "elemental_flow_constraint"), "AttributeError")
        ELSE IF "element_comp" \notin caps
            THEN Raise(Failed(c3, "elemental_flow_constraint"), "AttributeError")
        ELSE IF ~has_geometry_1D(c6)
            THEN Raise(Failed(c6, "element_balances"), "AttributeError")
        ELSE Return(c9)

-----------------------------------------------------------------------------
(* add_total_enthalpy_balances *)

IdxScalar == {<<NoX, NoX, "-", "-">>}

\* a faulty variant: the extent-of-reaction check is missing
has_extents_unchecked(c) == TRUE

has_extents(c) ==
    hasattr(c, "rate_reaction_extent") \/ hasattr(c, "equilibrium_reaction_extent")

add_total_enthalpy_balances_0D(F) ==
    LET c0 == comps
        c1 == IF has_holdup
              THEN SetAttr(c0, "energy_holdup", Component("Var", IdxTA(phases)))
              ELSE c0
        c2 == IF dynamic
              THEN SetAttr(c1, "energy_accumulation",
                           Component("DerivativeVar", c1["energy_holdup"].idx))
              ELSE c1
        c3 == SetAttr(c2, "scaling_factor_energy", Component("Param", IdxScalar))
        c4 == IF "has_heat_transfer" \in F
              THEN SetAttr(c3, "heat", Component("Var", IdxT))
              ELSE c3
        c5 == IF "has_work_transfer" \in F
              THEN SetAttr(c4, "work", Component("Var", IdxT))
              ELSE c4
        c6 == IF "has_heat_of_reaction" \in F
              THEN SetAttr(c5, "heat_of_reaction", Component("Expression", IdxT))
              ELSE c5
        c7 == SetAttr(c6, "enthalpy_balances", Component("Constraint", IdxT))
        c8 == IF has_holdup THEN ensure_phase_fractions_0D(c7) ELSE c7
        c9 == IF has_holdup
              THEN SetAttr(c8, "enthalpy_holdup_calculation",
                           Component("Constraint", IdxTA(phases)))
              ELSE c8
    IN  IF has_holdup /\ ~hasattr(c0, "volume")
            THEN Raise(c0, "ConfigurationError")
        ELSE IF "has_heat_of_reaction" \in F /\ ~has_extents(c0)
            THEN Raise(c0, "ConfigurationError")
        ELSE IF dynamic /\ ~hasattr(c1, "energy_holdup")
            THEN Raise(c1, "AttributeError")
        ELSE IF ~has_properties
            THEN Raise(Failed(c6, "enthalpy_balances"), "AttributeError")
        ELSE Return(c9)

add_total_enthalpy_balances_1D(F) ==
    LET L == length_domain
        c0 == comps
        ca == SetAttr(c0, "_enthalpy_flow", Component("Var", IdxTXA(L, phases)))
        cb == SetAttr(ca, "enthalpy_flow_linking_constraint",
                      Component("Constraint", IdxTXA(L, phases)))
        cc == SetAttr(cb, "enthalpy_flow_dx",
                      Component("DerivativeVar", IdxTXA(L, phases)))
        c1 == IF has_holdup
              THEN SetAttr(cc, "energy_holdup", Component("Var", IdxTXA(L, phases)))
              ELSE cc
        c2 == IF dynamic
              THEN SetAttr(c1, "energy_accumulation",
                           Component("DerivativeVar", c1["energy_holdup"].idx))
              ELSE c1
        c3 == SetAttr(c2, "scaling_factor_energy", Component("Param", IdxScalar))
        c4 == IF "has_heat_transfer" \in F
              THEN SetAttr(c3, "heat", Component("Var", IdxTX(L)))
              ELSE c3
        c5 == IF "has_work_transfer" \in F
              THEN SetAttr(c4, "work", Component("Var", IdxTX(L)))
              ELSE c4
        c6 == IF "has_heat_of_reaction" \in F
              THEN SetAttr(c5, "heat_of_reaction",
                           Component("Expression", IdxTX(L)))
              ELSE c5
        c7 == SetAttr(c6, "enthalpy_balances",
                      Component("Constraint",
                                IdxTX({x \in L : ~enthalpy_balances_skip(x)})))
        c8 == IF has_holdup THEN ensure_phase_fractions_1D(c7) ELSE c7
        c9 == IF has_holdup
              THEN SetAttr(c8, "enthalpy_holdup_calculation",
                           Component("Constraint", IdxTXA(L, phases)))
              ELSE c8
    IN  IF "has_heat_of_reaction" \in F /\ ~has_extents(c0)
            THEN Raise(c0, "ConfigurationError")
        ELSE IF ~has_length_domain
            THEN Raise(c0, "AttributeError")
        ELSE IF ~has_properties
            THEN Raise(Failed(ca, "enthalpy_flow_linking_constraint"),
                       "AttributeError")
        ELSE IF dynamic /\ ~hasattr(c1, "energy_holdup")
            THEN Raise(c1, "AttributeError")
        ELSE IF ~has_geometry_1D(c6)
            THEN Raise(Failed(c6, "enthalpy_balances"), "AttributeError")
        ELSE Return(c9)

-----------------------------------------------------------------------------
(* add_total_pressure_balances *)

add_total_pressure_balances_0D(F) ==
    LET c0 == comps
        c1 == IF "has_pressure_change" \in F
              THEN SetAttr(c0, "deltaP", Component("Var", IdxT))
              ELSE c0
        c2 == SetAttr(c1, "scaling_factor_pressure", Component("Param", IdxScalar))
        c3 == SetAttr(c2, "pressure_balance", Component("Constraint", IdxT))
    IN  IF ~has_properties
            THEN Raise(Failed(c2, "pressure_balance"), "AttributeError")
        ELSE Return(c3)

add_total_pressure_balances_1D(F) ==
    LET L == length_domain
        c0 == comps
        c1 == SetAttr(c0, "pressure", Component("Var", IdxTX(L)))
        c2 == SetAttr(c1, "pressure_linking_constraint",
                      Component("Constraint", IdxTX(L)))
        c3 == SetAttr(c2, "pressure_dx", Component("DerivativeVar", IdxTX(L)))
        c4 == IF "has_pressure_change" \in F
              THEN SetAttr(c3, "deltaP", Component("Var", IdxTX(L)))
              ELSE c3
        c5 == SetAttr(c4, "scaling_factor_pressure", Component("Param", IdxScalar))
        c6 == SetAttr(c5, "pressure_balance",
                      Component("Constraint",
                                IdxTX({x \in L : ~pressure_balance_skip(x)})))
    IN  IF ~has_length_domain
            THEN Raise(c0, "AttributeError")
        ELSE IF ~has_properties
            THEN Raise(Failed(c1, "pressure_linking_constraint"), "AttributeError")
        ELSE IF ~has_geometry_1D(c5)
            THEN Raise(Failed(c5, "pressure_balance"), "AttributeError")
        ELSE Return(c6)

-----------------------------------------------------------------------------
(* Unsupported balance types: every one of these methods is               *)
(*     raise BalanceTypeNotSupportedError(...)                            *)

UnsupportedMethods ==
    {"add_total_material_balances", "add_phase_enthalpy_balances",
     "add_phase_energy_balances", "add_total_energy_balances",
     "add_phase_pressure_balances", "add_phase_momentum_balances",
     "add_total_momentum_balances"}

\* a faulty variant: one of the methods builds a holdup variable and returns
unsupported_builds_holdup(m) ==
    IF m = "add_total_energy_balances"
    THEN Return(SetAttr(comps, "energy_holdup", Component("Var", IdxT)))
    ELSE Raise(comps, "BalanceTypeNotSupportedError")

unsupported_0D(m) == Raise(comps, "BalanceTypeNotSupportedError")

unsupported_1D(m) == Raise(comps, "BalanceTypeNotSupportedError")

-----------------------------------------------------------------------------
(* Construction of the state blocks and reaction blocks *)

FlowDirections == {"forward", "backward"}

Keys0D == {"in", "out"} \X Time \X {NoX}
Keys1D(L) == {"x"} \X Time \X L

\* properties_in gets defined_state, properties_out its negation
StateBlocks0D(information_flow, hpe) ==
    [k \in Keys0D |->
        [defined_state |-> IF k[1] = "in" THEN information_flow = "forward"
                           ELSE information_flow # "forward",
         has_phase_equilibrium |-> hpe]]

\* idx_map: 0 (defined state) at the first point when information flows
\* forward, at the last point when it flows backward, 1 everywhere else
idx_map(information_flow, x) ==
    IF information_flow = "forward" /\ x = first THEN 0
    ELSE IF information_flow = "backward" /\ x = last THEN 0
    ELSE 1

StateBlocks1D(information_flow, hpe) ==
    [k \in Keys1D(length_domain) |->
        [defined_state |-> idx_map(information_flow, k[3]) = 0,
         has_phase_equilibrium |-> hpe]]

ReactionBlocks0D(heq) == [k \in {"r"} \X Time \X {NoX} |-> [has_equilibrium |-> heq]]

ReactionBlocks1D(heq) ==
    [k \in {"r"} \X Time \X length_domain |-> [has_equilibrium |-> heq]]

\* state variables of freshly built state blocks: not fixed, initial value set
NewFixed(props) == [v \in (DOMAIN props) \X StateVars |-> FALSE]
NewValue(props) == [v \in (DOMAIN props) \X StateVars |-> 1]

Called(op, args, result) == [op |-> op, args |-> args, result |-> result]

-----------------------------------------------------------------------------
(* ControlVolume1DBlockData.apply_transformation                           *)

\* the point after x in the set of points L
next_point(L, x) == CHOOSE y \in L : y > x /\ \A z \in L : z > x => y <= z

\* nfe: the elements of L are halved when nfe asks for at least twice as many
\* elements as L has; L is kept when it has nfe elements or more
finite_element_points(L, nfe) ==
    IF nfe >= 2 * (Cardinality(L) - 1)
    THEN L \cup {(x + next_point(L, x)) \div 2 : x \in L \ {last}}
    ELSE L

\* ncp = 1: LAGRANGE-RADAU collocates at the end of each element,
\* LAGRANGE-LEGENDRE at a point inside it
collocation_point_set(L, scheme) ==
    IF scheme = "LAGRANGE-LEGENDRE"
    THEN L \cup {(x + next_point(L, x)) \div 2 : x \in L \ {last}}
    ELSE L

\* points of length_domain after apply_to(self, wrt=self.length_domain, ...)
discretized_points ==
    IF transformation_method = "dae.finite_difference"
    THEN finite_element_points(length_domain, cfg.finite_elements)
    ELSE collocation_point_set(
             finite_element_points(length_domain, cfg.finite_elements),
             transformation_scheme)

\* a component indexed by the length domain is expanded to the new points N:
\* its rule runs at each new point for every other index it has (a rule that
\* skips a boundary skips none of them: new points lie inside the domain)
expand_component(comp, N) ==
    LET along == {i \in comp.idx : i[2] # NoX}
    IN  [comp EXCEPT !.idx = @ \cup {<<i[1], x, i[3], i[4]>> : i \in along, x \in N}]

\* derivatives with respect to the length domain and the discretization
\* equation the transformation writes for each
LengthDerivatives ==
    {"material_flow_dx", "elemental_flow_dx", "enthalpy_flow_dx", "pressure_dx"}

disc_eq(name) ==
    CASE name = "material_flow_dx" -> "material_flow_dx_disc_eq"
      [] name = "elemental_flow_dx" -> "elemental_flow_dx_disc_eq"
      [] name = "enthalpy_flow_dx" -> "enthalpy_flow_dx_disc_eq"
      [] name = "pressure_dx" -> "pressure_dx_disc_eq"

\* the point of P where the scheme writes no discretization equation
no_disc_eq_point(P, scheme) ==
    IF scheme = "FORWARD"
    THEN CHOOSE x \in P : \A y \in P : x >= y
    ELSE CHOOSE x \in P : \A y \in P : x <= y

expand_components(c, P, scheme) ==
    LET N == P \ length_domain
        derivs == {n \in DOMAIN c : n \in LengthDerivatives}
    IN  [n \in (DOMAIN c) \cup {disc_eq(d) : d \in derivs} |->
            IF n \in DOMAIN c /\ n \notin {disc_eq(d) : d \in derivs}
            THEN expand_component(c[n], N)
            ELSE LET d == CHOOSE d \in derivs : disc_eq(d) = n
                 IN  Component("Constraint",
                        {i \in expand_component(c[d], N).idx :
                            i[2] # no_disc_eq_point(P, scheme)})]

\* a faulty variant: the state blocks are left at the points they had
expand_state_blocks_left_alone(props, P) == props

\* indexed blocks are expanded too: a state block at a new point is built
\* through idx_map, which gives an inner point defined_state = False
expand_state_blocks(props, P) ==
    [k \in (DOMAIN props) \cup
            {<<j[1], j[2], x>> : j \in DOMAIN props, x \in P \ length_domain} |->
        IF k \in DOMAIN props THEN props[k]
        ELSE [defined_state |-> FALSE,
              has_phase_equilibrium |->
                 props[CHOOSE j \in DOMAIN props : TRUE].has_phase_equilibrium]]

expand_reaction_blocks(rxn, P) ==
    [k \in (DOMAIN rxn) \cup
            {<<j[1], j[2], x>> : j \in DOMAIN rxn, x \in P \ length_domain} |->
        IF k \in DOMAIN rxn THEN rxn[k]
        ELSE rxn[CHOOSE j \in DOMAIN rxn : TRUE]]

\* state variables of the state blocks the transformation adds: as built
expand_state_vars(f, props, new) ==
    [v \in (DOMAIN props) \X StateVars |->
        IF v \in DOMAIN f THEN f[v] ELSE new[v]]

\* the exception apply_transformation raises, "ok" when it returns
apply_transformation_result ==
    IF ~has_length_domain THEN "AttributeError"
    ELSE IF domain_info.parent # "self" THEN "ConfigurationError"
    ELSE IF cfg.finite_elements = NotConfigured THEN "ConfigurationError"
    ELSE IF /\ cfg.collocation_points = NotConfigured
            /\ transformation_method = "dae.collocation"
    THEN "ConfigurationError"
    ELSE IF transformation_method \notin
               {"dae.finite_difference", "dae.collocation"}
    THEN "ConfigurationError"
    ELSE IF domain_info.scheme # "none" THEN "DAE_Error"
    ELSE "ok"

-----------------------------------------------------------------------------
(* Arguments explored for each method *)

MaterialFlags == {"has_rate_reactions", "has_equilibrium_reactions",
                  "has_phase_equilibrium", "has_mass_transfer"}

MaterialArgs ==
    {F \in SUBSET MaterialFlags : Cardinality(F) <= 1 \/ F = MaterialFlags}
    \cup {{"custom_molar_term"}, {"custom_mass_term"}}

ElementArgs == {F \in SUBSET MaterialFlags : Cardinality(F) <= 1}

EnthalpyFlags == {"has_heat_of_reaction", "has_heat_transfer", "has_work_transfer"}

EnthalpyArgs ==
    {F \in SUBSET EnthalpyFlags : Cardinality(F) <= 1 \/ F = EnthalpyFlags}

PressureArgs == SUBSET {"has_pressure_change"}

\* has_phase_equilibrium / has_equilibrium argument: None, True or False
TriState == {None, "True", "False"}

\* <<information_flow, has_phase_equilibrium>>
StateBlockArgs ==
    {<<"forward", "True">>, <<"forward", "False">>, <<"backward", "True">>,
     <<"invalid", "True">>, <<"forward", None>>}

-----------------------------------------------------------------------------
(* Actions: one per public method of the control volume *)

CanCall == ncalls < MaxCalls /\ init.pc = "idle"

initVars == <<fixed, value, init>>

add_geometry_0D ==
    /\ CanCall /\ Is0D
    /\ comps' = SetAttr(comps, "volume", Component("Var", IdxT))
    /\ call' = Called("add_geometry", {}, "ok")
    /\ ncalls' = ncalls + 1
    /\ UNCHANGED <<cfg, length_domain, domain_info, flow_direction, properties,
                   reactions,
                   initVars>>

\* length_domain argument: None (a new ContinuousSet is created on the
\* control volume), a ContinuousSet that belongs to another block, or an
\* object that is not a ContinuousSet
GeometryArgs ==
    {<<None, "forward">>, <<None, "backward">>, <<None, "invalid">>,
     <<"ContinuousSet", "forward">>, <<"invalid", "forward">>}

\* length_domain is created before flow_direction is validated
add_geometry_1D(ld, fd) ==
    /\ CanCall /\ Is1D
    /\ IF ld \notin {None, "ContinuousSet"}
       THEN /\ UNCHANGED <<length_domain, domain_info, flow_direction, comps>>
            /\ call' = Called("add_geometry", {ld, fd}, "ConfigurationError")
       ELSE /\ length_domain' = LengthPoints
            /\ domain_info' = [parent |-> IF ld = None THEN "self" ELSE "external",
                             scheme |-> "none"]
            /\ IF fd \in FlowDirections
               THEN /\ flow_direction' = fd
                    /\ comps' = SetAttr(SetAttr(comps, "area",
                                                Component("Var", IdxScalar)),
                                        "length", Component("Var", IdxScalar))
                    /\ call' = Called("add_geometry", {ld, fd}, "ok")
               ELSE /\ UNCHANGED <<flow_direction, comps>>
                    /\ call' = Called("add_geometry", {ld, fd},
                                      "ConfigurationError")
    /\ ncalls' = ncalls + 1
    /\ UNCHANGED <<cfg, properties, reactions, initVars>>

add_state_blocks_0D(information_flow, hpe) ==
    /\ CanCall /\ Is0D
    /\ IF hpe = None \/ information_flow \notin FlowDirections
       THEN /\ call' = Called("add_state_blocks", {information_flow, hpe},
                              "ConfigurationError")
            /\ UNCHANGED <<properties, fixed, value>>
       ELSE /\ properties' = StateBlocks0D(information_flow, hpe = "True")
            /\ fixed' = NewFixed(properties')
            /\ value' = NewValue(properties')
            /\ call' = Called("add_state_blocks", {information_flow, hpe}, "ok")
    /\ ncalls' = ncalls + 1
    /\ UNCHANGED <<cfg, comps, length_domain, domain_info, flow_direction,
                   reactions, init>>

\* an information_flow that is not a FlowDirection is not rejected: idx_map
\* returns 1 at every point
add_state_blocks_1D(information_flow, hpe) ==
    /\ CanCall /\ Is1D
    /\ IF hpe = None
       THEN /\ call' = Called("add_state_blocks", {information_flow, hpe},
                              "ConfigurationError")
            /\ UNCHANGED <<properties, fixed, value>>
       ELSE IF ~has_length_domain
       THEN /\ call' = Called("add_state_blocks", {information_flow, hpe},
                              "AttributeError")
            /\ UNCHANGED <<properties, fixed, value>>
       ELSE /\ properties' = StateBlocks1D(information_flow, hpe = "True")
            /\ fixed' = NewFixed(properties')
            /\ value' = NewValue(properties')
            /\ call' = Called("add_state_blocks", {information_flow, hpe}, "ok")
    /\ ncalls' = ncalls + 1
    /\ UNCHANGED <<cfg, comps, length_domain, domain_info, flow_direction,
                   reactions, init>>

add_reaction_blocks(heq) ==
    /\ CanCall
    /\ IF heq = None
       THEN /\ call' = Called("add_reaction_blocks", {heq}, "ConfigurationError")
            /\ UNCHANGED reactions
       ELSE IF ~has_properties
       THEN /\ call' = Called("add_reaction_blocks", {heq}, "AttributeError")
            /\ UNCHANGED reactions
       ELSE /\ reactions' = IF Is0D THEN ReactionBlocks0D(heq = "True")
                                    ELSE ReactionBlocks1D(heq = "True")
            /\ call' = Called("add_reaction_blocks", {heq}, "ok")
    /\ ncalls' = ncalls + 1
    /\ UNCHANGED <<cfg, comps, length_domain, domain_info, flow_direction,
                   properties,
                   initVars>>

\* the effect of a balance-adding method whose body produced r
Balance(op, F, r) ==
    /\ comps' = r.comps
    /\ call' = Called(op, F, r.result)
    /\ ncalls' = ncalls + 1
    /\ UNCHANGED <<cfg, length_domain, domain_info, flow_direction, properties,
                   reactions,
                   initVars>>

add_phase_component_balances(F) ==
    /\ CanCall
    /\ Balance("add_phase_component_balances", F,
               IF Is0D THEN add_material_balance_common_0D("componentPhase", F)
               ELSE add_material_balance_common_1D("componentPhase", F))

add_total_component_balances(F) ==
    /\ CanCall
    /\ Balance("add_total_component_balances", F,
               IF Is0D THEN add_material_balance_common_0D("componentTotal", F)
               ELSE add_material_balance_common_1D("componentTotal", F))

add_total_element_balances(F) ==
    /\ CanCall
    /\ Balance("add_total_element_balances", F,
               IF Is0D THEN add_total_element_balances_0D(F)
               ELSE add_total_element_balances_1D(F))

add_total_enthalpy_balances(F) ==
    /\ CanCall
    /\ Balance("add_total_enthalpy_balances", F,
               IF Is0D THEN add_total_enthalpy_balances_0D(F)
               ELSE add_total_enthalpy_balances_1D(F))

add_total_pressure_balances(F) ==
    /\ CanCall
    /\ Balance("add_total_pressure_balances", F,
               IF Is0D THEN add_total_pressure_balances_0D(F)
               ELSE add_total_pressure_balances_1D(F))

add_unsupported(m) ==
    /\ CanCall
    /\ Balance(m, {}, IF Is0D THEN unsupported_0D(m) ELSE unsupported_1D(m))

-----------------------------------------------------------------------------
(* Configurations explored.  A control volume is constructed with dynamic *)
(* implying has_holdup; a 1-D control volume always has a transformation  *)
(* scheme (_validate_config_args).                                        *)

Packages ==
    {[caps |-> Capabilities, flow_basis |-> "molar"],
     [caps |-> Capabilities \ {"mw"}, flow_basis |-> "mass"],
     [caps |-> Capabilities, flow_basis |-> "other"]}
    \cup {[caps |-> Capabilities \ {a}, flow_basis |-> "molar"] :
             a \in Capabilities \ {"mw"}}

\* the transformation is applied once the balances are written; it is not
\* an add_* call
apply_transformation ==
    /\ Is1D /\ init.pc = "idle"
    /\ call' = Called("apply_transformation", {}, apply_transformation_result)
    /\ IF apply_transformation_result = "ok"
       THEN /\ length_domain' = discretized_points
            /\ domain_info' = [domain_info EXCEPT !.scheme = transformation_scheme]
            /\ comps' = expand_components(comps, discretized_points,
                                          transformation_scheme)
            /\ properties' = expand_state_blocks(properties, discretized_points)
            /\ reactions' = expand_reaction_blocks(reactions, discretized_points)
            /\ fixed' = expand_state_vars(fixed, properties', NewFixed(properties'))
            /\ value' = expand_state_vars(value, properties', NewValue(properties'))
       ELSE UNCHANGED <<length_domain, domain_info, comps, properties, reactions,
                        fixed, value>>
    /\ UNCHANGED <<cfg, flow_direction, ncalls, init>>

Holdups == {<<FALSE, FALSE>>, <<FALSE, TRUE>>, <<TRUE, TRUE>>}

\* finite_elements and collocation_points as a unit model passes them on
Config(variant, scheme, dh, np, pkg) ==
    [variant |-> variant, transformation_scheme |-> scheme,
     finite_elements |-> 2 * MaxLen, collocation_points |-> 1,
     dynamic |-> dh[1], has_holdup |-> dh[2], nphases |-> np,
     caps |-> pkg.caps, flow_basis |-> pkg.flow_basis]

FullPackage == [caps |-> Capabilities, flow_basis |-> "molar"]

Configs ==
    {Config("0D", "none", dh, 2, FullPackage) : dh \in Holdups}
    \cup {Config("0D", "none", <<FALSE, TRUE>>, 1, FullPackage)}
    \cup {Config("0D", "none", <<FALSE, TRUE>>, 2, pkg) : pkg \in Packages}
    \cup {Config("1D", sch, <<FALSE, TRUE>>, 2, FullPackage) :
             sch \in TransformationSchemes}
    \cup {Config("1D", "BACKWARD", dh, 2, FullPackage) : dh \in Holdups}
    \cup {Config("1D", "BACKWARD", <<FALSE, TRUE>>, 1, FullPackage)}
    \cup {Config("1D", "FORWARD", <<FALSE, TRUE>>, 2, pkg) : pkg \in Packages}

Idle == [pc |-> "idle"]

Init ==
    /\ cfg \in Configs
    /\ comps = <<>>
    /\ length_domain = {}
    /\ domain_info = NoDomain
    /\ flow_direction = "none"
    /\ properties = <<>>
    /\ reactions = <<>>
    /\ call = Called("build", {}, "ok")
    /\ ncalls = 0
    /\ fixed = <<>>
    /\ value = <<>>
    /\ init = Idle

Next ==
    \/ add_geometry_0D
    \/ \E a \in GeometryArgs : add_geometry_1D(a[1], a[2])
    \/ \E a \in StateBlockArgs : add_state_blocks_0D(a[1], a[2])
    \/ \E a \in StateBlockArgs : add_state_blocks_1D(a[1], a[2])
    \/ \E heq \in TriState : add_reaction_blocks(heq)
    \/ \E F \in MaterialArgs : add_phase_component_balances(F)
    \/ \E F \in MaterialArgs : add_total_component_balances(F)
    \/ \E F \in ElementArgs : add_total_element_balances(F)
    \/ \E F \in EnthalpyArgs : add_total_enthalpy_balances(F)
    \/ \E F \in PressureArgs : add_total_pressure_balances(F)
    \/ \E m \in UnsupportedMethods : add_unsupported(m)

Spec == Init /\ [][Next]_vars

-----------------------------------------------------------------------------
(* Initialization / state-release protocol *)

time_first == 1     \* flowsheet().config.time.first()

\* a state variable is <<key of its state block, <<name, index>>>>
is_indexed(n) == n[2] # "-"

\* values: 1 = the value a variable has after construction, GivenValue = the
\* value the caller passes in state_args, NoValue = the value None
NoValue == 0
GivenValue == 2
NoFlags == <<>>     \* initialize returned no flags
GivenStateArgs == [n \in StateVars |-> GivenValue]

\* define_port_members() returns a dict: the order of the state variables
\* is the package's choice
StateVarOrders1 == <<<<"flow_vol", "-">>, <<"conc_mol_comp", "A">>>>

StateVarOrders ==
    {<<<<"flow_vol", "-">>, <<"conc_mol_comp", "A">>>>,
     <<<<"conc_mol_comp", "A">>, <<"flow_vol", "-">>>>}

\* The state-block collection's initialize/release_state (property package).
\* initialize with hold_state fixes every state variable of its blocks that
\* is not fixed, to the state_args value, and returns the previous fixed
\* flags; release_state(flags) unfixes those the flags record as not fixed.
fix_state_vars(K, fx) == [v \in DOMAIN fx |-> IF v[1] \in K THEN TRUE ELSE fx[v]]

state_values(K, state_args, fx, val) ==
    [v \in DOMAIN val |->
        IF v[1] \in K /\ ~fx[v] THEN state_args[v[2]] ELSE val[v]]

state_flags(K, fx) == [v \in K \X StateVars |-> fx[v]]

revert_state_vars(flags, fx) ==
    [v \in DOMAIN fx |->
        IF v \in DOMAIN flags /\ ~flags[v] THEN FALSE ELSE fx[v]]

properties_in == {k \in DOMAIN properties : k[1] = "in"}
properties_out == {k \in DOMAIN properties : k[1] = "out"}

\* how a call of initialize can go: the collaborators (state blocks, reaction
\* blocks, the solver they call) return or raise.  A state-block initialize
\* that raises leaves what it had fixed either fixed ("held") or released
\* ("clean").  An AttributeError of reactions.initialize is swallowed.
ReactionOutcomes == {"reactions_AttributeError", "reactions_Exception"}
Outcomes0D ==
    {"ok", "properties_in_held", "properties_in_clean",
     "properties_out_held", "properties_out_clean"} \cup ReactionOutcomes
Outcomes1D == {"ok", "properties_held", "properties_clean"} \cup ReactionOutcomes

Raised(fx, val, failure, delegated) ==
    [fixed |-> fx, value |-> val, pc |-> "raised", failure |-> failure,
     flags |-> NoFlags, delegated |-> delegated]

Returned(fx, val, flags) ==
    [fixed |-> fx, value |-> val, pc |-> "done", failure |-> "none",
     flags |-> flags, delegated |-> TRUE]

\* hold_state handed to properties_out.initialize: always True (first a
\* faulty variant that hands the caller's hold_state on)
properties_out_hold_state_passed_on(hold_state) == hold_state

properties_out_hold_state(hold_state) == TRUE

\* the state blocks the reaction blocks are built on: tmp_dict["state_block"]
reaction_state_blocks == IF Is0D THEN properties_out ELSE DOMAIN properties

\* the step blk.reactions.initialize(state_vars_fixed=True) of a call of
\* initialize: whether the call is made, its argument, the state variables
\* of the reaction blocks' state blocks that are not fixed (fx) at that
\* moment, and the state variables whose fixing by this call of initialize
\* has been released by then
ReactionsInitialize(invoked, fx, released) ==
    [invoked |-> invoked,
     state_vars_fixed |-> TRUE,
     unfixed |-> IF invoked
                 THEN {v \in reaction_state_blocks \X StateVars : ~fx[v]}
                 ELSE {},
     released |-> IF invoked THEN released ELSE {}]

\* ControlVolume0DBlockData.initialize
initialize_result_0D(given, hold_state, out) ==
    LET inlet == <<"in", time_first, NoX>>
        \* no state_args: the inlet values as they are, None included
        state_args == IF given THEN GivenStateArgs
                      ELSE [n \in StateVars |-> value[<<inlet, n>>]]
        \* properties_in.initialize(hold_state=hold_state)
        f0 == fix_state_vars(properties_in, fixed)
        f1 == IF hold_state THEN f0 ELSE fixed
        v1 == state_values(properties_in, state_args, fixed, value)
        in_flags == IF hold_state THEN state_flags(properties_in, fixed)
                    ELSE NoFlags
        \* properties_out.initialize(hold_state=True)
        held == fix_state_vars(properties_out, f1)
        f2 == IF properties_out_hold_state(hold_state) THEN held ELSE f1
        v2 == state_values(properties_out, state_args, f1, v1)
        out_flags == IF properties_out_hold_state(hold_state)
                     THEN state_flags(properties_out, f1)
                     ELSE NoFlags
        \* blk.reactions.initialize(state_vars_fixed=True); without reaction
        \* blocks blk.reactions raises the AttributeError that is swallowed
        step == ReactionsInitialize(
                    has_reactions /\ out \in {"ok"} \cup ReactionOutcomes,
                    f2,
                    {v \in DOMAIN fixed :
                        (f0[v] /\ ~f1[v]) \/ (held[v] /\ ~f2[v])})
        \* properties_out.release_state(out_flags)
        f4 == revert_state_vars(out_flags, f2)
        r == IF out = "properties_in_held"
             THEN Raised(f0, v1, "properties", TRUE)
             ELSE IF out = "properties_in_clean"
             THEN Raised(fixed, v1, "properties", TRUE)
             ELSE IF out = "properties_out_held"
             THEN Raised(f2, v2, "properties", TRUE)
             ELSE IF out = "properties_out_clean"
             THEN Raised(f1, v2, "properties", TRUE)
             ELSE IF out = "reactions_Exception"
             THEN Raised(f2, v2, "reactions", TRUE)
             ELSE Returned(f4, v2, in_flags)
    IN  r @@ [reactions |-> step, source_state |-> <<>>]

\* ControlVolume0DBlockData.release_state
release_state_result_0D(flags, fx) == revert_state_vars(flags, fx)

\* 1-D: the source block is at the first point when the flow is forward, at
\* the last point otherwise, and at the first time point only
source_idx == IF flow_direction = "forward" THEN first ELSE last
source == <<"x", time_first, source_idx>>

\* release_state that unfixes the source state variables instead of
\* restoring the recorded flags
release_state_unfixes_1D(flags, fx) ==
    [v \in DOMAIN fx |-> IF v[1] = source THEN FALSE ELSE fx[v]]

\* ControlVolume1DBlockData.release_state: .fixed = flags[k]
release_state_result_1D(flags, fx) ==
    [v \in DOMAIN fx |-> IF v[1] = source THEN flags[v] ELSE fx[v]]

\* one state variable n of the source block, s = [fixed, value, flags, raised]
fix_source_var(n, given, s) ==
    LET v == <<source, n>>
        t == [s EXCEPT !.flags = (v :> s.fixed[v]) @@ @]
    IN  IF s.raised THEN s
        ELSE IF ~given
        THEN \* no state_args: fix at the current value, raise when there is none
             IF s.value[v] # NoValue THEN [t EXCEPT !.fixed[v] = TRUE]
             ELSE [t EXCEPT !.raised = TRUE]
        ELSE IF is_indexed(n)
        THEN [t EXCEPT !.fixed[v] = TRUE,
                       !.value[v] = IF s.fixed[v] THEN @ ELSE GivenValue]
        ELSE \* scalar: fixed at its current value when it has one; the
             \* fix(state_args[k]) under it is never reached
             [t EXCEPT !.fixed[v] = IF s.value[v] # NoValue THEN TRUE ELSE @]

RECURSIVE fix_source(_, _, _)
fix_source(order, given, s) ==
    IF order = <<>> THEN s
    ELSE fix_source(Tail(order), given, fix_source_var(Head(order), given, s))

\* ControlVolume1DBlockData.initialize
initialize_result_1D(given, hold_state, out, order) ==
    LET s == fix_source(order, given,
                        [fixed |-> fixed, value |-> value, flags |-> <<>>,
                         raised |-> FALSE])
        state_args == IF given THEN GivenStateArgs
                      ELSE [n \in StateVars |-> s.value[<<source, n>>]]
        K == DOMAIN properties
        \* properties.initialize(hold_state=True)
        flags == state_flags(K, s.fixed)
        f2 == fix_state_vars(K, s.fixed)
        v2 == state_values(K, state_args, s.fixed, s.value)
        \* blk.reactions.initialize(state_vars_fixed=True)
        step == ReactionsInitialize(
                    /\ has_reactions
                    /\ ~s.raised
                    /\ out \in {"ok"} \cup ReactionOutcomes,
                    f2, {})
        \* properties.release_state(flags)
        f3 == revert_state_vars(flags, f2)
        r == IF s.raised THEN Raised(s.fixed, s.value, "source_value", FALSE)
             ELSE IF out = "properties_held"
             THEN Raised(f2, v2, "properties", TRUE)
             ELSE IF out = "properties_clean"
             THEN Raised(s.fixed, v2, "properties", TRUE)
             ELSE IF out = "reactions_Exception"
             THEN Raised(f2, v2, "reactions", TRUE)
             ELSE IF hold_state THEN Returned(f3, v2, s.flags)
             ELSE Returned(release_state_result_1D(s.flags, f3), v2, NoFlags)
        \* the source state variables as properties.initialize finds them
        found == [v \in {source} \X StateVars |->
                     [fixed |-> s.fixed[v], value |-> s.value[v]]]
    IN  r @@ [reactions |-> step, source_state |-> found]

ActiveStatus(c) == [n \in DOMAIN c |-> c[n].active]

\* the record of a call of initialize that produced r
InitCall(given, hold_state, r) ==
    [pc |-> r.pc, hold_state |-> hold_state, state_args |-> given,
     failure |-> r.failure, flags |-> r.flags, delegated |-> r.delegated,
     reactions |-> r.reactions, source_state |-> r.source_state,
     before |-> fixed, value_before |-> value,
     active_before |-> ActiveStatus(comps)]

initialize_0D(given, hold_state, out) ==
    /\ Is0D /\ has_properties /\ init.pc = "idle"
    /\ out \in ReactionOutcomes => has_reactions
    /\ LET r == initialize_result_0D(given, hold_state, out)
       IN  /\ fixed' = r.fixed
           /\ value' = r.value
           /\ init' = InitCall(given, hold_state, r)
    /\ UNCHANGED <<cfg, buildVars, call, ncalls>>

initialize_1D(given, hold_state, out, order) ==
    /\ Is1D /\ has_properties /\ init.pc = "idle"
    /\ out \in ReactionOutcomes => has_reactions
    /\ LET r == initialize_result_1D(given, hold_state, out, order)
       IN  /\ fixed' = r.fixed
           /\ value' = r.value
           /\ init' = InitCall(given, hold_state, r)
    /\ UNCHANGED <<cfg, buildVars, call, ncalls>>

\* release_state(flags) with the flags initialize(hold_state=True) returned
release_state_0D ==
    /\ Is0D /\ init.pc = "done" /\ init.hold_state
    /\ fixed' = release_state_result_0D(init.flags, fixed)
    /\ init' = [init EXCEPT !.pc = "released"]
    /\ UNCHANGED <<cfg, buildVars, call, ncalls, value>>

release_state_1D ==
    /\ Is1D /\ init.pc = "done" /\ init.hold_state
    /\ fixed' = release_state_result_1D(init.flags, fixed)
    /\ init' = [init EXCEPT !.pc = "released"]
    /\ UNCHANGED <<cfg, buildVars, call, ncalls, value>>

\* the state blocks of the inlet (0-D) or of the source point (1-D), at
\* every time point, and the one initialize reads the values from
SourceKeys ==
    IF Is0D THEN properties_in
    ELSE {k \in DOMAIN properties : k[3] = source_idx}
SourceFirst == IF Is0D THEN <<"in", time_first, NoX>> ELSE source

\* what the user fixed before initialize: state variables by class
\* <<at the source, at the first time point, variable>>
VarClasses == BOOLEAN \X BOOLEAN \X StateVars
VarClass(v) == <<v[1] \in SourceKeys, v[1][2] = time_first, v[2]>>
UserFixes == {P \in SUBSET VarClasses : Cardinality(P) <= 2 \/ P = VarClasses}

BuiltConfigs ==
    {Config("0D", "none", <<FALSE, TRUE>>, 2, FullPackage),
     Config("1D", "BACKWARD", <<FALSE, TRUE>>, 2, FullPackage)}

\* a control volume whose unit model has called add_geometry,
\* add_state_blocks and (rx) add_reaction_blocks, and whose user has fixed
\* the state variables P and left the source variables N without a value
InitBuilt ==
    /\ cfg \in BuiltConfigs
    /\ length_domain = IF Is1D THEN LengthPoints ELSE {}
    /\ domain_info = IF Is1D THEN LocalDomain ELSE NoDomain
    /\ flow_direction \in IF Is1D THEN FlowDirections ELSE {"none"}
    /\ comps = IF Is0D THEN SetAttr(<<>>, "volume", Component("Var", IdxT))
               ELSE SetAttr(SetAttr(<<>>, "area", Component("Var", IdxScalar)),
                            "length", Component("Var", IdxScalar))
    /\ properties = IF Is0D THEN StateBlocks0D("forward", FALSE)
                    ELSE StateBlocks1D("forward", FALSE)
    /\ \E rx \in BOOLEAN :
          /\ reactions = IF ~rx THEN <<>>
                         ELSE IF Is0D THEN ReactionBlocks0D(FALSE)
                         ELSE ReactionBlocks1D(FALSE)
          /\ ncalls = IF rx THEN 3 ELSE 2
          /\ call = IF rx THEN Called("add_reaction_blocks", {"False"}, "ok")
                    ELSE Called("add_state_blocks", {"forward", "False"}, "ok")
    /\ \E P \in UserFixes :
          fixed = [v \in (DOMAIN properties) \X StateVars |-> VarClass(v) \in P]
    /\ \E N \in SUBSET StateVars :
          value = [v \in (DOMAIN properties) \X StateVars |->
                      IF v[1] = SourceFirst /\ v[2] \in N THEN NoValue ELSE 1]
    /\ init = Idle

NextInit ==
    \/ \E F \in PressureArgs : add_total_pressure_balances(F)
    \/ \E given \in BOOLEAN, hold_state \in BOOLEAN, out \in Outcomes0D :
          initialize_0D(given, hold_state, out)
    \/ \E given \in BOOLEAN, hold_state \in BOOLEAN, out \in Outcomes1D,
          order \in StateVarOrders :
          initialize_1D(given, hold_state, out, order)
    \/ release_state_0D
    \/ release_state_1D

SpecInit == InitBuilt /\ [][NextInit]_vars

-----------------------------------------------------------------------------
(* Balance-adding calls on a control volume that has its geometry and its *)
(* state blocks                                                            *)

BalanceConfigs ==
    {Config("0D", "none", dh, np, FullPackage) :
        dh \in Holdups, np \in {1, 2}}
    \cup {Config("1D", sch, dh, np, FullPackage) :
             sch \in {"BACKWARD", "FORWARD"}, dh \in Holdups, np \in {1, 2}}

\* a control volume whose unit model has called add_geometry,
\* add_state_blocks(has_phase_equilibrium=True) and (rx)
\* add_reaction_blocks(has_equilibrium=True); the construction calls are not
\* counted against MaxCalls, two further calls are explored
InitBalances ==
    /\ cfg \in BalanceConfigs
    /\ length_domain = IF Is1D THEN LengthPoints ELSE {}
    /\ domain_info = IF Is1D THEN LocalDomain ELSE NoDomain
    /\ flow_direction = IF Is1D THEN "forward" ELSE "none"
    /\ comps = IF Is0D THEN SetAttr(<<>>, "volume", Component("Var", IdxT))
               ELSE SetAttr(SetAttr(<<>>, "area", Component("Var", IdxScalar)),
                            "length", Component("Var", IdxScalar))
    /\ properties = IF Is0D THEN StateBlocks0D("forward", TRUE)
                    ELSE StateBlocks1D("forward", TRUE)
    /\ \E rx \in BOOLEAN :
          /\ reactions = IF ~rx THEN <<>>
                         ELSE IF Is0D THEN ReactionBlocks0D(TRUE)
                         ELSE ReactionBlocks1D(TRUE)
          /\ call = IF rx THEN Called("add_reaction_blocks", {"True"}, "ok")
                    ELSE Called("add_state_blocks", {"forward", "True"}, "ok")
    /\ ncalls = MaxCalls - 2
    /\ fixed = NewFixed(properties)
    /\ value = NewValue(properties)
    /\ init = Idle

NextBalances ==
    \/ \E F \in MaterialArgs : add_phase_component_balances(F)
    \/ \E F \in MaterialArgs : add_total_component_balances(F)
    \/ \E F \in ElementArgs : add_total_element_balances(F)
    \/ \E F \in EnthalpyArgs : add_total_enthalpy_balances(F)
    \/ \E F \in PressureArgs : add_total_pressure_balances(F)

SpecBalances == InitBalances /\ [][NextBalances]_vars

-----------------------------------------------------------------------------
(* Every operation on a control volume that has its geometry and its state *)
(* blocks, the balance methods called with their default flags             *)

LifetimeConfigs ==
    {Config("0D", "none", <<FALSE, TRUE>>, 2, FullPackage),
     Config("1D", "BACKWARD", <<FALSE, TRUE>>, 2, FullPackage),
     Config("1D", "FORWARD", <<TRUE, TRUE>>, 2, FullPackage),
     Config("1D", "LAGRANGE-LEGENDRE", <<FALSE, TRUE>>, 2, FullPackage),
     Config("1D", "LAGRANGE-RADAU", <<FALSE, FALSE>>, 1, FullPackage),
     [Config("1D", "LAGRANGE-RADAU", <<FALSE, TRUE>>, 2, FullPackage)
         EXCEPT !.collocation_points = NotConfigured],
     [Config("1D", "BACKWARD", <<FALSE, TRUE>>, 2, FullPackage)
         EXCEPT !.finite_elements = NotConfigured]}

InitLifetime ==
    /\ cfg \in LifetimeConfigs
    /\ length_domain = IF Is1D THEN LengthPoints ELSE {}
    /\ domain_info = IF Is1D THEN LocalDomain ELSE NoDomain
    /\ flow_direction = IF Is1D THEN "forward" ELSE "none"
    /\ comps = IF Is0D THEN SetAttr(<<>>, "volume", Component("Var", IdxT))
               ELSE SetAttr(SetAttr(<<>>, "area", Component("Var", IdxScalar)),
                            "length", Component("Var", IdxScalar))
    /\ properties = IF Is0D THEN StateBlocks0D("forward", TRUE)
                    ELSE StateBlocks1D("forward", TRUE)
    /\ reactions = <<>>
    /\ call = Called("add_state_blocks", {"forward", "True"}, "ok")
    /\ ncalls = MaxCalls - 2
    /\ fixed = NewFixed(properties)
    /\ value = NewValue(properties)
    /\ init = Idle

NextLifetime ==
    \/ add_geometry_0D
    \/ \E a \in GeometryArgs : add_geometry_1D(a[1], a[2])
    \/ \E a \in StateBlockArgs : add_state_blocks_0D(a[1], a[2])
    \/ \E a \in StateBlockArgs : add_state_blocks_1D(a[1], a[2])
    \/ \E heq \in TriState : add_reaction_blocks(heq)
    \/ add_phase_component_balances({})
    \/ add_total_component_balances({})
    \/ add_total_element_balances({})
    \/ add_total_enthalpy_balances({})
    \/ add_total_pressure_balances({})
    \/ apply_transformation
    \/ \E hold_state \in BOOLEAN : initialize_0D(FALSE, hold_state, "ok")
    \/ \E hold_state \in BOOLEAN :
          initialize_1D(FALSE, hold_state, "ok", StateVarOrders1)
    \/ release_state_0D
    \/ release_state_1D

SpecLifetime == InitLifetime /\ [][NextLifetime]_vars

-----------------------------------------------------------------------------
(* PressureChanger (generic_models/unit_models/pressure_changer.py): a     *)
(* unit model around a 0-D control volume.  Its state blocks are kept in    *)
(* `properties` next to those of the control volume (key "isentropic"), its *)
(* constraints in `comps`.                                                  *)

\* the members of the Enum, written apart from the strings of the same name
ThermodynamicAssumption ==
    {"ThermodynamicAssumption.isothermal", "ThermodynamicAssumption.isentropic",
     "ThermodynamicAssumption.pump", "ThermodynamicAssumption.adiabatic"}

\* values given for the routine argument: None, a member of the Enum, or the
\* string the docstring names
Routines ==
    {None, "ThermodynamicAssumption.isentropic",
     "ThermodynamicAssumption.isothermal", "isentropic", "isothermal"}

\* PressureChangerData.initialize: the routine it runs
\*     if routine is None: routine = blk.config.thermodynamic_assumption
\*     if routine is ThermodynamicAssumption.isentropic: init_isentropic
\*     else: UnitModelBlockData.initialize
initialize_routine(routine) ==
    LET r == IF routine = None THEN cfg.thermodynamic_assumption ELSE routine
    IN  IF r = "ThermodynamicAssumption.isentropic" THEN "init_isentropic"
        ELSE "UnitModelBlockData.initialize"

\* add_isentropic builds properties_isentropic over time
properties_isentropic == {k \in DOMAIN properties : k[1] = "isentropic"}

\* properties_isentropic[t].temperature, fixed during the routine when it is
\* a Var (it is among the keys of `fixed` only then)
temperature == <<"temperature", "-">>

\* PressureChangerData.init_isentropic
init_isentropic_result(given, out) ==
    LET \* flags = blk.control_volume.initialize(...): hold_state=True
        cv == initialize_result_0D(given, TRUE, out)
        state_args == IF given THEN GivenStateArgs
                      ELSE [n \in StateVars |->
                               cv.value[<<<<"in", time_first, NoX>>, n>>]]
        \* blk.properties_isentropic.initialize(state_args=state_args): what
        \* it fixes it releases
        v2 == [v \in DOMAIN cv.value |->
                  IF v[2] \in StateVars
                  THEN state_values(properties_isentropic, state_args,
                                    cv.fixed, cv.value)[v]
                  ELSE cv.value[v]]
        \* temperature.fix(), isentropic.deactivate(), solve,
        \* temperature.unfix(), isentropic.activate(), solve
        f3 == [v \in DOMAIN cv.fixed |->
                  IF v[1] \in properties_isentropic /\ v[2] = temperature
                  THEN FALSE ELSE cv.fixed[v]]
        c3 == [comps EXCEPT !["isentropic"].active = TRUE]
        \* blk.control_volume.release_state(flags)
        f4 == release_state_result_0D(cv.flags, f3)
    IN  IF cv.pc = "raised" THEN cv @@ [comps |-> comps]
        ELSE IF properties_isentropic = {}
        THEN \* blk.properties_isentropic: AttributeError, the inlet stays held
             [cv EXCEPT !.pc = "raised", !.failure = "AttributeError"]
                @@ [comps |-> comps]
        ELSE [cv EXCEPT !.fixed = f4, !.value = v2] @@ [comps |-> c3]

\* UnitModelBlockData.initialize: the control volume is initialized, the unit
\* solved and the control volume's state released
unit_initialize_result(given, out) ==
    LET cv == initialize_result_0D(given, TRUE, out)
    IN  IF cv.pc = "raised" THEN cv @@ [comps |-> comps]
        ELSE [cv EXCEPT !.fixed = release_state_result_0D(cv.flags, cv.fixed)]
                @@ [comps |-> comps]

\* PressureChangerData.initialize(state_args, routine)
initialize_unit(routine, given, out) ==
    /\ init.pc = "idle"
    /\ LET r == IF initialize_routine(routine) = "init_isentropic"
                THEN init_isentropic_result(given, out)
                ELSE unit_initialize_result(given, out)
       IN  /\ fixed' = r.fixed
           /\ value' = r.value
           /\ comps' = r.comps
           /\ init' = InitCall(given, TRUE, r)
                         @@ [routine |-> initialize_routine(routine)]
           /\ call' = Called("initialize", {routine},
                             IF r.pc = "raised" THEN r.failure ELSE "ok")
    /\ UNCHANGED <<cfg, length_domain, domain_info, flow_direction, properties,
                   reactions, ncalls>>

\* what the user has fixed before initialize: classes (block, variable)
UnitVarClasses == {"in", "out", "isentropic"} \X (StateVars \cup {temperature})

\* a PressureChanger as build leaves it (no holdup, no reactions), with the
\* variables P fixed and the isentropic constraint active or not; the
\* temperature of a state block is a Var (temperature_is_var) or an Expression
InitUnit ==
    /\ \E ta \in ThermodynamicAssumption, tv \in BOOLEAN :
          cfg = Config("0D", "none", <<FALSE, FALSE>>, 2, FullPackage)
                   @@ [thermodynamic_assumption |-> ta, temperature_is_var |-> tv]
    /\ length_domain = {}
    /\ domain_info = NoDomain
    /\ flow_direction = "none"
    /\ properties =
          [k \in Keys0D \cup
                 (IF cfg.thermodynamic_assumption =
                        "ThermodynamicAssumption.isentropic"
                  THEN {"isentropic"} \X Time \X {NoX} ELSE {}) |->
              [defined_state |-> k[1] = "in", has_phase_equilibrium |-> FALSE]]
    /\ reactions = <<>>
    /\ \E a \in BOOLEAN :
          comps = IF cfg.thermodynamic_assumption =
                        "ThermodynamicAssumption.isentropic"
                  THEN SetAttr(SetAttr(<<>>, "ratioP_calculation",
                                       Component("Constraint", IdxT)),
                               "isentropic",
                               [Component("Constraint", IdxT) EXCEPT !.active = a])
                  ELSE SetAttr(<<>>, "ratioP_calculation",
                               Component("Constraint", IdxT))
    /\ call = Called("build", {}, "ok")
    /\ ncalls = 0
    /\ \E P \in {Q \in SUBSET UnitVarClasses : Cardinality(Q) <= 1} :
          fixed = [v \in ((DOMAIN properties) \X StateVars) \cup
                         (IF cfg.temperature_is_var
                          THEN properties_isentropic \X {temperature} ELSE {}) |->
                      <<v[1][1], v[2]>> \in P]
    /\ value = [v \in DOMAIN fixed |-> 1]
    /\ init = Idle

NextUnit ==
    \E routine \in Routines, given \in BOOLEAN,
       out \in Outcomes0D \ ReactionOutcomes :
          initialize_unit(routine, given, out)

SpecUnit == InitUnit /\ [][NextUnit]_vars

-----------------------------------------------------------------------------
(* Properties *)

BalanceMethods ==
    {"add_phase_component_balances", "add_total_component_balances",
     "add_total_element_balances", "add_total_enthalpy_balances",
     "add_total_pressure_balances"}

MaterialMethods ==
    {"add_phase_component_balances", "add_total_component_balances"}

\* this step is a call of a method in M
Calls(M) == ncalls' = ncalls + 1 /\ call'.op \in M

\* C9: each of the seven unsupported balance methods, called in any state of
\* either variant, raises BalanceTypeNotSupportedError and leaves the
\* components, the length domain and the blocks of the control volume as
\* they were.
C9_UnsupportedRaisesAndAddsNothing ==
    [][Calls(UnsupportedMethods) =>
          /\ call'.result = "BalanceTypeNotSupportedError"
          /\ UNCHANGED buildVars]_vars

C9_Witness ==
    /\ call.op \in UnsupportedMethods
    /\ call.result = "BalanceTypeNotSupportedError"
    /\ hasattr(comps, "material_balances")
    /\ has_properties

RejectedElementFlags ==
    {"has_rate_reactions", "has_equilibrium_reactions", "has_phase_equilibrium"}

\* C10 as stated: add_total_element_balances with a rate-reaction,
\* equilibrium-reaction or phase-equilibrium flag raises ConfigurationError,
\* for every property package, and creates nothing.
C10_AsStated ==
    [][(Calls({"add_total_element_balances"})
            /\ call'.args \cap RejectedElementFlags # {}) =>
          /\ call'.result = "ConfigurationError"
          /\ comps' = comps]_vars

\* C10: add_total_element_balances with a rate-reaction, equilibrium-reaction
\* or phase-equilibrium flag creates nothing and raises ConfigurationError
\* when the property package has an element_list, PropertyNotSupportedError
\* when it has none.
C10_ElementFlagsRejected ==
    [][(Calls({"add_total_element_balances"})
            /\ call'.args \cap RejectedElementFlags # {}) =>
          /\ call'.result = IF "element_list" \in caps
                            THEN "ConfigurationError"
                            ELSE "PropertyNotSupportedError"
          /\ comps' = comps]_vars

C10_Witness ==
    /\ call.op = "add_total_element_balances"
    /\ "has_phase_equilibrium" \in call.args
    /\ call.result = "ConfigurationError"
    /\ has_properties

\* the variables and constraints among the components c (a constraint whose
\* construction failed before its first element is not counted)
VarsAndConstraints(c) ==
    [n \in {m \in DOMAIN c :
               /\ c[m].ctype \in {"Var", "DerivativeVar", "Constraint"}
               /\ c[m].idx # {}}
        |-> c[n]]

\* C1 as stated: a balance-adding call that raises has created no variable
\* and no constraint: the variables and constraints of the control volume
\* are those it had before the call.
C1_AsStated ==
    [][(Calls(BalanceMethods) /\ call'.result # "ok") =>
          VarsAndConstraints(comps') = VarsAndConstraints(comps)]_vars

BalanceConstraints ==
    {"material_balances", "element_balances", "enthalpy_balances",
     "pressure_balance"}

ConstraintOf(op) ==
    CASE op \in MaterialMethods -> "material_balances"
      [] op = "add_total_element_balances" -> "element_balances"
      [] op = "add_total_enthalpy_balances" -> "enthalpy_balances"
      [] op = "add_total_pressure_balances" -> "pressure_balance"

\* the inner (phase, component, element) indices a balance may range over
InnerIndices(n) ==
    CASE n = "material_balances" ->
            {pcs, {<<j, "-">> : j \in component_list}}
      [] n = "element_balances" -> {{<<e, "-">> : e \in element_list}}
      [] OTHER -> {{<<"-", "-">>}}

SkippedEnd == IF transformation_scheme = "FORWARD" THEN last ELSE first

Built(n) == hasattr(comps, n) /\ comps[n].idx # {}

\* C2: in the 1-D control volume every balance constraint that has been
\* built (material, element, enthalpy, pressure) has an element for every
\* time point, every inner index and every length point except one end of
\* the length domain: the last point under the FORWARD scheme, the first
\* point under every other scheme; a balance call that returns has built its
\* constraint.
C2_OneEndpointSkipped ==
    Is1D =>
      /\ \A n \in BalanceConstraints :
            Built(n) =>
              \E I \in InnerIndices(n) :
                comps[n].idx =
                  {<<t, x, ab[1], ab[2]>> :
                     t \in Time, x \in length_domain \ {SkippedEnd}, ab \in I}
      /\ (call.op \in BalanceMethods /\ call.result = "ok")
            => Built(ConstraintOf(call.op))

C2_Witness ==
    /\ Is1D
    /\ transformation_scheme = "FORWARD"
    /\ call.op = "add_phase_component_balances"
    /\ call.result = "ok"
    /\ \E i \in comps["material_balances"].idx : i[2] = first
    /\ \A i \in comps["material_balances"].idx : i[2] # last

TermVariables ==
    {"material_holdup", "material_accumulation", "rate_reaction_generation",
     "rate_reaction_extent", "equilibrium_reaction_generation",
     "equilibrium_reaction_extent", "phase_equilibrium_generation",
     "mass_transfer_term"}

\* the flag of a term variable, as the claim pairs them
FlagOf(v, F) ==
    CASE v = "material_holdup" -> has_holdup
      [] v = "material_accumulation" -> dynamic
      [] v \in {"rate_reaction_generation", "rate_reaction_extent"} ->
            "has_rate_reactions" \in F
      [] v \in {"equilibrium_reaction_generation", "equilibrium_reaction_extent"} ->
            "has_equilibrium_reactions" \in F
      [] v = "phase_equilibrium_generation" -> "has_phase_equilibrium" \in F
      [] v = "mass_transfer_term" -> "has_mass_transfer" \in F

FixedByInitialize(v) == ~init.before[v]

\* C5: on both variants and whatever was fixed beforehand, when
\* initialize(hold_state=True) has returned and release_state has been called
\* with the returned flags, or initialize(hold_state=False) has returned,
\* every state variable is fixed exactly if it was before initialize and
\* every component is active exactly if it was.
C5_RoundTripRestores ==
    ((init.pc = "done" /\ ~init.hold_state) \/ init.pc = "released") =>
        /\ fixed = init.before
        /\ ActiveStatus(comps) = init.active_before

C5_Witness ==
    /\ init.pc = "released"
    /\ Is1D
    /\ hasattr(comps, "pressure_balance")
    /\ \E v, w \in {source} \X StateVars : init.before[v] /\ ~init.before[w]
    /\ \E v \in DOMAIN fixed : v[1] # source /\ ~init.before[v]

\* C6 as stated: when initialize has returned, every outlet / non-source
\* state variable it fixed is unfixed; with hold_state=False so is every
\* inlet / source state variable it fixed; with hold_state=True every inlet /
\* source state variable is fixed and flags were returned.
C6_AsStated ==
    init.pc = "done" =>
        /\ \A v \in DOMAIN fixed :
              (v[1] \notin SourceKeys /\ FixedByInitialize(v)) => ~fixed[v]
        /\ ~init.hold_state =>
              \A v \in DOMAIN fixed :
                 (v[1] \in SourceKeys /\ FixedByInitialize(v)) => ~fixed[v]
        /\ init.hold_state =>
              /\ DOMAIN init.flags # {}
              /\ \A v \in DOMAIN fixed : v[1] \in SourceKeys => fixed[v]

\* C7 as stated: when initialize has raised because state-block
\* initialization, reaction-block initialization or a solve inside them
\* failed, every outlet / non-source state variable initialize had fixed is
\* unfixed.
C7_AsStated ==
    (init.pc = "raised" /\ init.failure \in {"properties", "reactions"}) =>
        \A v \in DOMAIN fixed :
           (v[1] \notin SourceKeys /\ FixedByInitialize(v)) => ~fixed[v]

\* C8 as stated: initialize called without state_args while an inlet /
\* source state variable has no value raises, before the state blocks are
\* initialized with the missing value.
C8_AsStated ==
    (/\ init.pc # "idle"
     /\ ~init.state_args
     /\ \E n \in StateVars : init.value_before[<<SourceFirst, n>>] = NoValue) =>
        init.pc = "raised" /\ ~init.delegated

HoldupMethods ==
    MaterialMethods \cup {"add_total_element_balances",
                          "add_total_enthalpy_balances"}

geometry_added == IF Is0D THEN hasattr(comps, "volume") ELSE has_geometry_1D(comps)

\* C11 as stated: with has_holdup=True and no geometry, a material, element
\* or enthalpy balance call raises ConfigurationError and creates no variable
\* and no constraint.
C11_AsStated ==
    [][(Calls(HoldupMethods) /\ has_holdup /\ ~geometry_added) =>
          /\ call'.result = "ConfigurationError"
          /\ VarsAndConstraints(comps') = VarsAndConstraints(comps)]_vars

no_extent_exists ==
    /\ ~hasattr(comps, "rate_reaction_extent")
    /\ ~hasattr(comps, "equilibrium_reaction_extent")

RequestedAttributes(op, F) ==
    (IF op \in MaterialMethods /\ "has_rate_reactions" \in F
     THEN {"rate_reaction_idx"} ELSE {})
    \cup (IF op \in MaterialMethods /\ "has_equilibrium_reactions" \in F
          THEN {"equilibrium_reaction_idx"} ELSE {})
    \cup (IF op = "add_phase_component_balances" /\ "has_phase_equilibrium" \in F
          THEN {"phase_equilibrium_idx", "phase_equilibrium_list"} ELSE {})
    \cup (IF op = "add_total_element_balances"
          THEN {"element_list", "element_comp"} ELSE {})
    \cup (IF op \in MaterialMethods
             /\ \/ "custom_molar_term" \in F /\ cfg.flow_basis = "mass"
                \/ "custom_mass_term" \in F /\ cfg.flow_basis = "molar"
          THEN {"mw"} ELSE {})

\* the call has no other fault: geometry, state blocks and the reaction
\* blocks its flags need exist and are configured for them
OtherwiseValid(op, F) ==
    /\ has_properties
    /\ geometry_added
    /\ "has_rate_reactions" \in F => has_reactions
    /\ "has_equilibrium_reactions" \in F =>
          has_reactions /\ \A k \in DOMAIN reactions : reactions[k].has_equilibrium
    /\ "has_phase_equilibrium" \in F =>
          \A k \in DOMAIN properties : properties[k].has_phase_equilibrium
    /\ op = "add_total_element_balances" => F \cap RejectedElementFlags = {}

\* C14 as stated: a balance-adding call, with no other fault, that uses an
\* optional attribute the package lacks raises PropertyNotSupportedError.
C14_AsStated ==
    [][(/\ Calls(BalanceMethods)
        /\ OtherwiseValid(call'.op, call'.args)
        /\ ~(RequestedAttributes(call'.op, call'.args) \subseteq caps)) =>
          call'.result = "PropertyNotSupportedError"]_vars

\* C15 as stated: add_reaction_blocks or a balance-adding method called
\* before add_state_blocks, and 1-D add_state_blocks called before
\* add_geometry, raise ConfigurationError.
C15_AsStated ==
    [][(\/ /\ Calls(BalanceMethods \cup {"add_reaction_blocks"})
           /\ ~has_properties
        \/ /\ Calls({"add_state_blocks"})
           /\ Is1D
           /\ ~has_length_domain) =>
          call'.result = "ConfigurationError"]_vars

\* the shape _add_phase_fractions gives the phase fractions among the
\* components c of a control volume with length points L
PhaseFractionsAsSpecified(c, L) ==
    LET points == IF Is0D THEN IdxTA(phases) ELSE IdxTXA(L, phases)
    IN  IF Cardinality(phases) = 1
        THEN /\ c["phase_fraction"].ctype = "Expression"
             /\ c["phase_fraction"].expr = 1
             /\ c["phase_fraction"].idx = points
             /\ ~hasattr(c, "sum_of_phase_fractions")
        ELSE /\ c["phase_fraction"].ctype = "Var"
             /\ c["phase_fraction"].initialize = <<1, Cardinality(phases)>>
             /\ c["phase_fraction"].idx = points
             /\ hasattr(c, "sum_of_phase_fractions")
             /\ c["sum_of_phase_fractions"].ctype = "Constraint"
             /\ c["sum_of_phase_fractions"].idx =
                   IF Is0D THEN IdxT ELSE IdxTX(L)

\* C16: on a control volume with has_holdup=True a successful material,
\* element or enthalpy balance call leaves phase fractions of the specified
\* shape (one phase: an expression equal to 1 at every point, no variable and
\* no sum constraint; more phases: a variable per point and phase initialised
\* to 1/number of phases and one sum constraint per point), and a call made
\* when they exist leaves them exactly as they were.
C16_PhaseFractionsOnceAndReused ==
    [][Calls(HoldupMethods) =>
          /\ (has_holdup /\ call'.result = "ok") =>
                /\ hasattr(comps', "phase_fraction")
                /\ PhaseFractionsAsSpecified(comps', length_domain')
          /\ hasattr(comps, "phase_fraction") =>
                /\ comps'["phase_fraction"] = comps["phase_fraction"]
                /\ hasattr(comps, "sum_of_phase_fractions") =>
                      comps'["sum_of_phase_fractions"] =
                         comps["sum_of_phase_fractions"]
                /\ hasattr(comps', "sum_of_phase_fractions") =>
                      hasattr(comps, "sum_of_phase_fractions")]_vars

\* a second successful holdup-building call on a single-phase control volume
C16_Witness ==
    /\ has_holdup
    /\ Cardinality(phases) = 1
    /\ call.op = "add_total_enthalpy_balances"
    /\ call.result = "ok"
    /\ hasattr(comps, "material_holdup_calculation")
    /\ hasattr(comps, "phase_fraction")

\* the state blocks of P that are the defined state at time point t
DefinedAt(P, t) == {k \in DOMAIN P : k[2] = t /\ P[k].defined_state}

\* C17 (as stated): after a successful add_state_blocks exactly one state
\* block per time point is the defined state: in 0-D the inlet when
\* information flows forward and the outlet when backward, in 1-D the block
\* at the first length point when forward and at the last when backward.
C17_AsStated ==
    [][(Calls({"add_state_blocks"}) /\ call'.result = "ok") =>
          \A t \in Time :
             /\ Cardinality(DefinedAt(properties', t)) = 1
             /\ \A k \in DefinedAt(properties', t) :
                   IF Is0D
                   THEN k[1] = (IF "forward" \in call'.args THEN "in" ELSE "out")
                   ELSE k[3] = (IF "forward" \in call'.args THEN first ELSE last)]_vars

\* the points that carry a state block: (collection, time, length point)
StateBlockIndex == DOMAIN properties

\* an operation that finds state blocks on the control volume
LaterOperation == has_properties /\ UNCHANGED cfg

\* a step of apply_transformation (it is not counted among the add_* calls)
Transforms ==
    call'.op = "apply_transformation" /\ ncalls' = ncalls /\ init' = init

C19_AsStated ==
    [][(Calls(BalanceMethods) /\ Built(ConstraintOf(call'.op))) =>
          /\ call'.result # "ok"
          /\ comps' = comps]_vars

\* a call of initialize has been made
Initialized == init.pc # "idle"

C26_AsStated ==
    [][(Calls({"add_state_blocks"}) /\ "invalid" \in call'.args) =>
          /\ call'.result = "ConfigurationError"
          /\ properties' = properties]_vars

\* C28 (as stated): in a 1-D control volume on which initialize has run, the
\* state block initialize fixes as the source (picked from the flow direction
\* given to add_geometry) is the one add_state_blocks built with
\* defined_state=True (picked from information_flow).
C28_AsStated ==
    (Is1D /\ Initialized) => properties[source].defined_state

\* C29 (as stated): after 1-D initialize(hold_state=True) has returned, the
\* source-point state variables are fixed at every time point, and
\* release_state with the returned flags gives each of them the fixed status
\* it had before initialize.
C29_AsStated ==
    /\ (Is1D /\ init.pc = "done" /\ init.hold_state) =>
          \A v \in SourceKeys \X StateVars : fixed[v]
    /\ (Is1D /\ init.pc = "released") =>
          \A v \in SourceKeys \X StateVars : fixed[v] = init.before[v]

\* C30 (as stated): in 1-D initialize called with state_args, when the state
\* blocks are initialized every source state variable that was not fixed
\* before the call is fixed at the value state_args gives for it, scalar or
\* indexed, and every one that was fixed has kept its value.
C30_AsStated ==
    (Is1D /\ Initialized /\ init.state_args) =>
       \A v \in {source} \X StateVars :
          IF init.before[v]
          THEN init.source_state[v].value = init.value_before[v]
          ELSE /\ init.source_state[v].fixed
               /\ init.source_state[v].value = GivenStateArgs[v[2]]

\* C23 (as stated): PressureChanger.initialize runs the routine matching
\* thermodynamic_assumption when routine is None, init_isentropic when
\* routine is given as 'isentropic' (the Enum member or the string), and
\* the general unit initialization for every other routine.
C23_AsStated ==
    (init.pc # "idle" /\ call.op = "initialize") =>
       init.routine =
          IF \/ "isentropic" \in call.args
             \/ "ThermodynamicAssumption.isentropic" \in call.args
             \/ /\ None \in call.args
                /\ cfg.thermodynamic_assumption =
                      "ThermodynamicAssumption.isentropic"
          THEN "init_isentropic"
          ELSE "UnitModelBlockData.initialize"

\* C21 (as stated): when the isentropic routine has initialized a
\* PressureChanger, every variable is fixed exactly if it was before the call
\* and every constraint is active exactly if it was, whatever was fixed or
\* deactivated beforehand.
C21_AsStated ==
    (init.pc = "done" /\ init.routine = "init_isentropic") =>
       /\ fixed = init.before
       /\ ActiveStatus(comps) = init.active_before

\* the material balance has been built by its rule
MaterialBuilt == Built("material_balances") /\ "rule" \in DOMAIN comps["material_balances"]
MaterialRule == comps["material_balances"].rule
MaterialBody(i) == material_balances_body(MaterialRule, i)

\* the domain points at which a balance is written
BalancePoints ==
    IF Is0D THEN Time \X {NoX}
    ELSE Time \X {x \in length_domain : x # SkippedEnd}

\* the phases in which component j is present in the phase-component set
PhasesOf(j) == {p \in phases : <<p, j>> \in pcs}

\* the coefficient the claim gives term n of a present (phase, component)
Contribution(n, F) ==
    CASE n = "material_accumulation" -> IF dynamic THEN 0 - 1 ELSE 0
      [] n = "flow_in" -> IF Is0D THEN 1 ELSE 0
      [] n = "flow_out" -> IF Is0D THEN 0 - 1 ELSE 0
      [] n = "material_flow_dx" -> IF Is0D THEN 0 ELSE 1
      [] n = "rate_reaction_generation" ->
            IF "has_rate_reactions" \in F THEN 1 ELSE 0
      [] n = "equilibrium_reaction_generation" ->
            IF "has_equilibrium_reactions" \in F THEN 1 ELSE 0
      [] n = "mass_transfer_term" -> IF "has_mass_transfer" \in F THEN 1 ELSE 0

SummedTerms ==
    {"material_accumulation", "flow_in", "flow_out", "material_flow_dx",
     "rate_reaction_generation", "equilibrium_reaction_generation",
     "mass_transfer_term"}

\* C24: on both variants (in 1-D at every length point other than the
\* skipped boundary) the component-phase type has exactly one material
\* balance per (domain point, phase, component) of the phase-component set
\* and none for other pairs; the component-total type has exactly one per
\* (domain point, component), and its flow, holdup, generation and transfer
\* contributions are those of exactly the phases in which the component is
\* present.
C24_OneBalancePerIndex ==
    MaterialBuilt =>
       IF MaterialRule.balance_type = "componentPhase"
       THEN comps["material_balances"].idx =
               {<<d[1], d[2], pj[1], pj[2]>> : d \in BalancePoints, pj \in pcs}
       ELSE /\ comps["material_balances"].idx =
                  {<<d[1], d[2], j, "-">> : d \in BalancePoints, j \in component_list}
            /\ \A i \in comps["material_balances"].idx :
                  \A n \in SummedTerms, p \in phases, j \in component_list :
                     MaterialBody(i)[<<n, p, j>>] =
                        IF j = i[3] /\ p \in PhasesOf(j)
                        THEN Contribution(n, MaterialRule.F) ELSE 0

C24_Witness ==
    /\ MaterialBuilt
    /\ Is1D
    /\ MaterialRule.balance_type = "componentTotal"
    /\ MaterialRule.F = MaterialFlags
    /\ dynamic
    /\ cfg.nphases = 2
    /\ \E i \in comps["material_balances"].idx :
          /\ i[3] = "B"
          /\ MaterialBody(i)[<<"material_flow_dx", "Liq", "B">>] = 1
          /\ MaterialBody(i)[<<"material_flow_dx", "Vap", "B">>] = 0

\* C25: in component-phase balances built with has_phase_equilibrium=True
\* the phase-equilibrium term of (p, j) takes phase_equilibrium_generation[r]
\* with +1 when r's component is j and p is the first phase of r's pair, with
\* -1 when r's component is j and p is the second phase, and not at all
\* otherwise.
C25_SignedPhaseEquilibriumSum ==
    (/\ MaterialBuilt
     /\ MaterialRule.balance_type = "componentPhase"
     /\ "has_phase_equilibrium" \in MaterialRule.F) =>
       \A i \in comps["material_balances"].idx, r \in phase_equilibrium_idx :
          MaterialBody(i)[<<"phase_equilibrium_generation", r, "-">>] =
             IF phase_equilibrium_list[r][1] # i[4] THEN 0
             ELSE IF phase_equilibrium_list[r][2][1] = i[3] THEN 1
             ELSE IF phase_equilibrium_list[r][2][2] = i[3] THEN 0 - 1
             ELSE 0

C25_Witness ==
    /\ MaterialBuilt
    /\ MaterialRule.balance_type = "componentPhase"
    /\ "has_phase_equilibrium" \in MaterialRule.F
    /\ \E i \in comps["material_balances"].idx :
          /\ i[3] = "Vap" /\ i[4] = "A"
          /\ MaterialBody(i)[<<"phase_equilibrium_generation", "PE1", "-">>] = 1
          /\ MaterialBody(i)[<<"phase_equilibrium_generation", "PE2", "-">>] = 0 - 1
    /\ \E i \in comps["material_balances"].idx :
          /\ i[3] = "Liq" /\ i[4] = "B"
          /\ MaterialBody(i)[<<"phase_equilibrium_generation", "PE1", "-">>] = 0

\* C27: for the same control volume and the same flags (custom terms, which
\* are given per phase in one type and per component in the other, aside),
\* the component-phase balances of a component added up over the phases in
\* which it is present are that component's component-total balance, and
\* both types are written at the same domain points; the phase-equilibrium
\* terms of every component add up to zero over the phases.
C27_PhaseBalancesSumToTotal ==
    (MaterialBuilt /\ MaterialRule.F \subseteq MaterialFlags) =>
       /\ \A j \in component_list :
             Sigma(PhasesOf(j),
                   [p \in PhasesOf(j) |->
                       material_balances_phase(MaterialRule.F, p, j)])
                = material_balances_total(MaterialRule.F, j)
       /\ \A j \in component_list :
             Sigma(PhasesOf(j),
                   [p \in PhasesOf(j) |->
                       phase_equilibrium_term("componentPhase",
                                              MaterialRule.F, p, j)]) = Zero
       /\ \A x \in length_domain :
             material_balances_skip(x) <=> material_balances_total_skip(x)

C27_Witness ==
    /\ MaterialBuilt
    /\ MaterialRule.F = MaterialFlags
    /\ dynamic
    /\ cfg.nphases = 2
    /\ material_balances_phase(MaterialRule.F, "Vap", "A")
          [<<"phase_equilibrium_generation", "PE1", "-">>] = 1
    /\ material_balances_total(MaterialRule.F, "A")
          [<<"material_accumulation", "Vap", "A">>] = 0 - 1

\* values the flow terms of one component take, and the value of every
\* other term
FlowValues(j) == [{"flow_in", "flow_out"} \X phases \X {j} -> 0..1]

ValueOf(a, o, m) == IF m \in DOMAIN a THEN a[m] ELSE o

\* the assignment satisfies the equation: right-hand side - left-hand side = 0
Satisfies(eq, a, o) ==
    SumInt(MaterialTerms, [m \in MaterialTerms |-> eq[m] * ValueOf(a, o, m)]) = 0

\* C22: for a 0-D control volume without holdup, with a component-total
\* material balance and no reaction, phase-equilibrium, mass-transfer or
\* custom term, every assignment that satisfies the material balance of a
\* component at a time point has the outlet flow of that component, summed
\* over the phases in which it is present, equal to its inlet flow.
C22_PassThrough ==
    (/\ MaterialBuilt
     /\ Is0D
     /\ ~has_holdup
     /\ MaterialRule.balance_type = "componentTotal"
     /\ MaterialRule.F = {}) =>
       \A i \in comps["material_balances"].idx :
          \A a \in FlowValues(i[3]), o \in 0..1 :
             Satisfies(MaterialBody(i), a, o) =>
                SumInt(PhasesOf(i[3]),
                       [p \in PhasesOf(i[3]) |-> a[<<"flow_out", p, i[3]>>]])
                 = SumInt(PhasesOf(i[3]),
                          [p \in PhasesOf(i[3]) |-> a[<<"flow_in", p, i[3]>>]])

C22_Witness ==
    /\ MaterialBuilt
    /\ Is0D
    /\ ~has_holdup
    /\ MaterialRule.balance_type = "componentTotal"
    /\ MaterialRule.F = {}
    /\ cfg.nphases = 2
    /\ \E i \in comps["material_balances"].idx :
          /\ i[3] = "A"
          /\ \E a \in FlowValues("A") :
                /\ Satisfies(MaterialBody(i), a, 0)
                /\ a[<<"flow_in", "Vap", "A">>] = 1
                /\ a[<<"flow_out", "Liq", "A">>] = 1

====
